---- MODULE Spec2Model ----
(***************************************************************************)
(* Model of the ChatGPT desktop escalation driver:                         *)
(*   src/src/drivers/win/driver_robust.py  (RobustDriver.escalate)         *)
(*   src/src/drivers/win/robust_flow.py    (RobustChatGPTFlow)             *)
(*                                                                         *)
(* Text is modelled as a sequence of atoms.  An atom is a TLA+ string      *)
(* standing for a run of characters that the program never looks inside:   *)
(* a word, a punctuation mark, a blank, a newline, a code fence.  The      *)
(* length of a text is the sum of the lengths of its atoms, a substring    *)
(* test is a test for a contiguous run of atoms, and lower() maps every    *)
(* atom to its lower-case form.                                            *)
(***************************************************************************)
EXTENDS Integers, Sequences, FiniteSets, TLC

(***************************************************************************)
(* Text primitives (Python str operations used by the driver)              *)
(***************************************************************************)

\* the empty str, which is also what step10_copy_response returns on failure
EmptyText == <<>>

\* a run of 100 characters without blanks, used to reach past response[:100]
Filler ==
    "xxxxxxxxxxxxxxxxxxxxxxxxxxxxxxxxxxxxxxxxxxxxxxxxxxxxxxxxxxxxxxxxxxxxxxxxxxxxxxxxxxxxxxxxxxxxxxxxxxxx"

Quote == "\""
Newline == "\n"
Blank == " "
Whitespace == {Blank, Newline}

\* len(text)
RECURSIVE TextLen(_)
TextLen(s) == IF s = <<>> THEN 0 ELSE Len(Head(s)) + TextLen(Tail(s))

\* str.lower() on one atom
LowerAtom(a) ==
    CASE a = "Focus" -> "focus"
      [] a = "Failed" -> "failed"
      [] a = "Timeout" -> "timeout"
      [] a = "Response" -> "response"
      [] a = "Last" -> "last"
      [] a = "ChatGPT" -> "chatgpt"
      [] a = "ChatGPT.exe" -> "chatgpt.exe"
      [] a = "Empty" -> "empty"
      [] a = "Step" -> "step"
      [] a = "Agent" -> "agent"
      [] a = "Expert" -> "expert"
      [] a = "Help" -> "help"
      [] a = "Not" -> "not"
      [] a = "Still" -> "still"
      [] a = "Window" -> "window"
      [] a = "One-sentence" -> "one-sentence"
      [] a = "Copy" -> "copy"
      [] a = "Too" -> "too"
      [] a = "Thumb" -> "thumb"
      [] a = "Regenerate" -> "regenerate"
      [] a = "More" -> "more"
      [] a = "Share" -> "share"
      [] a = "C" -> "c"
      [] a = "S" -> "s"
      [] a = "N" -> "n"
      [] a = "L" -> "l"
      [] a = "E" -> "e"
      [] a = "K" -> "k"
      [] OTHER -> a

\* str.lower()
Lower(s) == [i \in 1..Len(s) |-> LowerAtom(s[i])]

\* needle in text
Contains(text, needle) ==
    \E i \in 0..(Len(text) - Len(needle)) :
        \A j \in 1..Len(needle) : text[i + j] = needle[j]

\* text[:n]; an atom that the cut would split is dropped
RECURSIVE Prefix(_, _)
Prefix(s, n) ==
    IF s = <<>> \/ Len(Head(s)) > n THEN <<>>
    ELSE <<Head(s)>> \o Prefix(Tail(s), n - Len(Head(s)))

\* str.strip()
RECURSIVE LStrip(_)
LStrip(s) == IF s # <<>> /\ Head(s) \in Whitespace THEN LStrip(Tail(s)) ELSE s

RECURSIVE RStrip(_)
RStrip(s) ==
    IF s # <<>> /\ s[Len(s)] \in Whitespace THEN RStrip(SubSeq(s, 1, Len(s) - 1)) ELSE s

Strip(s) == RStrip(LStrip(s))

\* The markdown code fence (three backquotes), alone or followed by a language
\* tag.  A TLA+ string cannot hold a backquote, so the atoms are spelled with
\* apostrophes; their lengths (3 and 7) are those of the real fences.
Fence == "'''"
FenceJson == "'''json"

\* text.startswith(fence)
StartsWithFence(s) == s # <<>> /\ Head(s) \in {Fence, FenceJson}

\* text.split("\n"): the sequence of lines
RECURSIVE SplitLines(_, _)
SplitLines(s, cur) ==
    IF s = <<>> THEN <<cur>>
    ELSE IF Head(s) = Newline THEN <<cur>> \o SplitLines(Tail(s), <<>>)
    ELSE SplitLines(Tail(s), Append(cur, Head(s)))

\* "\n".join(lines)
RECURSIVE JoinLines(_)
JoinLines(lines) ==
    IF lines = <<>> THEN <<>>
    ELSE IF Len(lines) = 1 THEN lines[1]
    ELSE lines[1] \o <<Newline>> \o JoinLines(Tail(lines))

\* [l for l in lines if not l.strip().startswith(fence)]
RECURSIVE DropFenceLines(_)
DropFenceLines(lines) ==
    IF lines = <<>> THEN <<>>
    ELSE IF StartsWithFence(Strip(Head(lines))) THEN DropFenceLines(Tail(lines))
    ELSE <<Head(lines)>> \o DropFenceLines(Tail(lines))

(***************************************************************************)
(* json.loads, on the JSON texts the model feeds it: a value is a string,  *)
(* a number, a literal, an array or an object, arbitrarily nested.         *)
(* JsonLex groups the atoms into JSON tokens, JsonValue parses one value   *)
(* starting at token i and returns [ok, val, next].                        *)
(***************************************************************************)
Digits == {"0", "1", "2", "3", "42"}
Literals == {"true", "false", "null"}
Punctuation == {"{", "}", "[", "]", ",", ":"}

BadToken == [t |-> "bad", v |-> <<>>]

RECURSIVE JsonLex(_, _, _, _)
JsonLex(s, inStr, cur, out) ==
    IF s = <<>> THEN (IF inStr THEN Append(out, BadToken) ELSE out)
    ELSE IF inStr THEN
        IF Head(s) = Quote
        THEN JsonLex(Tail(s), FALSE, <<>>, Append(out, [t |-> "str", v |-> cur]))
        ELSE IF Head(s) = Newline
        THEN Append(out, BadToken)
        ELSE JsonLex(Tail(s), TRUE, Append(cur, Head(s)), out)
    ELSE IF Head(s) = Quote THEN JsonLex(Tail(s), TRUE, <<>>, out)
    ELSE IF Head(s) \in Whitespace THEN JsonLex(Tail(s), FALSE, <<>>, out)
    ELSE IF Head(s) \in Punctuation
    THEN JsonLex(Tail(s), FALSE, <<>>, Append(out, [t |-> "p", v |-> <<Head(s)>>]))
    ELSE IF Head(s) \in Digits
    THEN JsonLex(Tail(s), FALSE, <<>>, Append(out, [t |-> "num", v |-> <<Head(s)>>]))
    ELSE IF Head(s) \in Literals
    THEN JsonLex(Tail(s), FALSE, <<>>, Append(out, [t |-> "lit", v |-> <<Head(s)>>]))
    ELSE Append(out, BadToken)

IsPunct(toks, i, c) == i <= Len(toks) /\ toks[i] = [t |-> "p", v |-> <<c>>]

ParseFail == [ok |-> FALSE, val |-> [t |-> "none"], next |-> 0]

RECURSIVE JsonValue(_, _)
RECURSIVE JsonElements(_, _, _)
RECURSIVE JsonMembers(_, _, _, _)

\* the elements of an array after "[" or ",": toks[i] starts an element
JsonElements(toks, i, acc) ==
    LET e == JsonValue(toks, i) IN
    IF ~e.ok THEN ParseFail
    ELSE IF IsPunct(toks, e.next, ",") THEN JsonElements(toks, e.next + 1, Append(acc, e.val))
    ELSE IF IsPunct(toks, e.next, "]")
    THEN [ok |-> TRUE, val |-> [t |-> "list", items |-> Append(acc, e.val)], next |-> e.next + 1]
    ELSE ParseFail

\* the members of an object after "{" or ",": toks[i] starts a key
JsonMembers(toks, i, keys, vals) ==
    IF ~(i <= Len(toks) /\ toks[i].t = "str" /\ IsPunct(toks, i + 1, ":")) THEN ParseFail
    ELSE LET m == JsonValue(toks, i + 2) IN
         IF ~m.ok THEN ParseFail
         ELSE IF IsPunct(toks, m.next, ",")
         THEN JsonMembers(toks, m.next + 1, Append(keys, toks[i].v), Append(vals, m.val))
         ELSE IF IsPunct(toks, m.next, "}")
         THEN [ok |-> TRUE,
               val |-> [t |-> "dict", keys |-> Append(keys, toks[i].v),
                        vals |-> Append(vals, m.val)],
               next |-> m.next + 1]
         ELSE ParseFail

JsonValue(toks, i) ==
    IF i > Len(toks) THEN ParseFail
    ELSE IF toks[i].t \in {"str", "num", "lit"}
    THEN [ok |-> TRUE, val |-> [t |-> toks[i].t, s |-> toks[i].v], next |-> i + 1]
    ELSE IF IsPunct(toks, i, "[") THEN
        IF IsPunct(toks, i + 1, "]")
        THEN [ok |-> TRUE, val |-> [t |-> "list", items |-> <<>>], next |-> i + 2]
        ELSE JsonElements(toks, i + 1, <<>>)
    ELSE IF IsPunct(toks, i, "{") THEN
        IF IsPunct(toks, i + 1, "}")
        THEN [ok |-> TRUE, val |-> [t |-> "dict", keys |-> <<>>, vals |-> <<>>], next |-> i + 2]
        ELSE JsonMembers(toks, i + 1, <<>>, <<>>)
    ELSE ParseFail

\* json.loads(text): ok is FALSE where json.loads raises JSONDecodeError
JsonLoads(text) ==
    LET toks == JsonLex(text, FALSE, <<>>, <<>>)
        r == JsonValue(toks, 1)
    IN IF r.ok /\ r.next = Len(toks) + 1 THEN r ELSE ParseFail

\* isinstance(parsed, dict)
IsDict(val) == val.t = "dict"

\* field in parsed
HasKey(val, field) == \E i \in 1..Len(val.keys) : val.keys[i] = field

\* parsed.get(field, default): the last member of that name wins
RECURSIVE DictGet(_, _, _)
DictGet(val, field, default) ==
    IF val.keys = <<>> THEN default
    ELSE LET n == Len(val.keys) IN
         IF val.keys[n] = field THEN val.vals[n]
         ELSE DictGet([val EXCEPT !.keys = SubSeq(val.keys, 1, n - 1),
                                  !.vals = SubSeq(val.vals, 1, n - 1)],
                      field, default)

(***************************************************************************)
(* Response validation (robust_flow.py)                                    *)
(***************************************************************************)

\* str(value) for the values a reply holds, as the atoms of its text
RECURSIVE ValueText(_)
RECURSIVE ItemsText(_)
ItemsText(items) ==
    IF items = <<>> THEN <<>> ELSE ValueText(Head(items)) \o ItemsText(Tail(items))
ValueText(val) ==
    CASE val.t \in {"str", "num", "lit"} -> val.s
      [] val.t = "list" -> ItemsText(val.items)
      [] val.t = "dict" -> ItemsText(val.vals)
      [] OTHER -> <<>>

EmptyStr == [t |-> "str", s |-> <<>>]
EmptyList == [t |-> "list", items |-> <<>>]

template_guidance_phrases ==
    { <<"one-sentence", " ", "summary">>,
      <<"your", " ", "main", " ", "guidance">>,
      <<"explanation", " ", "here">>,
      <<"what", " ", "the", " ", "agent", " ", "should", " ", "do">> }

template_plan_phrases ==
    { <<"step", " ", "1">>, <<"step", " ", "2">>, <<"step", " ", "3">>,
      <<"action", " ", "1">>, <<"action", " ", "2">> }

\* _is_template_response(response): "template", "genuine", or "raises" where
\* guidance.lower() is applied to a value that is not a str
TemplateCheck(response) ==
    IF ~IsDict(response) THEN "genuine"
    ELSE LET priority == DictGet(response, <<"priority">>, EmptyStr)
             guidance == DictGet(response, <<"guidance">>, EmptyStr)
             action_plan == DictGet(response, <<"action_plan">>, EmptyList)
         IN IF Contains(ValueText(priority), <<"|">>) THEN "template"
            ELSE IF guidance.t # "str" THEN "raises"
            ELSE IF \E phrase \in template_guidance_phrases :
                        Contains(Lower(guidance.s), phrase)
            THEN "template"
            ELSE IF action_plan.t = "list"
                    /\ \E k \in 1..Len(action_plan.items) :
                          Strip(Lower(ValueText(action_plan.items[k])))
                              \in template_plan_phrases
            THEN "template"
            ELSE IF HasKey(response, <<"notes_for_darien">>) THEN "template"
            ELSE "genuine"

_is_template_response(response) == TemplateCheck(response) = "template"

min_response_len == 20

expected_fields == { <<"guidance">>, <<"action_plan">>, <<"priority">> }

\* the text handed to json.loads: stripped, code-fence lines removed
JsonTextOf(response) ==
    LET json_text == Strip(response) IN
    IF StartsWithFence(json_text)
    THEN JoinLines(DropFenceLines(SplitLines(json_text, <<>>)))
    ELSE json_text

\* variant: no minimum length
_is_valid_json_response_any_length(response) ==
    IF response = EmptyText THEN FALSE
    ELSE LET parsed == JsonLoads(JsonTextOf(response)) IN
         /\ parsed.ok
         /\ IsDict(parsed.val)
         /\ \E field \in expected_fields : HasKey(parsed.val, field)

\* _is_valid_json_response(response)
_is_valid_json_response(response) ==
    IF response = EmptyText \/ TextLen(response) < min_response_len THEN FALSE
    ELSE LET parsed == JsonLoads(JsonTextOf(response)) IN
         /\ parsed.ok
         /\ IsDict(parsed.val)
         /\ \E field \in expected_fields : HasKey(parsed.val, field)

(***************************************************************************)
(* The texts the clipboard may hold when step 10 reads it.  Each is a      *)
(* concrete reply; Str(w) is the JSON string literal with content w.       *)
(***************************************************************************)
Str(w) == <<Quote>> \o w \o <<Quote>>

Member(key, value) == Str(<<key>>) \o <<":", Blank>> \o value

\* {"guidance": "restart the service", "priority": "high"}
RespValid ==
    <<"{">> \o Member("guidance", Str(<<"restart", " ", "the", " ", "service">>))
    \o <<",", Blank>> \o Member("priority", Str(<<"high">>)) \o <<"}">>

\* the same reply inside a fenced json block
RespFenced == <<FenceJson, Newline>> \o RespValid \o <<Newline, Fence>>

\* the format instructions echoed back:
\* {"guidance": "One-sentence summary", "priority": "low | medium | high"}
RespTemplate ==
    <<"{">> \o Member("guidance", Str(<<"One-sentence", " ", "summary">>))
    \o <<",", Blank>>
    \o Member("priority", Str(<<"low", " ", "|", " ", "medium", " ", "|", " ", "high">>))
    \o <<"}">>

\* {"action_plan": ["Step 1", "Step 2"]}
RespTemplatePlan ==
    <<"{">> \o Member("action_plan",
                      <<"[">> \o Str(<<"Step", " ", "1">>) \o <<",", Blank>>
                      \o Str(<<"Step", " ", "2">>) \o <<"]">>)
    \o <<"}">>

\* {"guidance": "restart the service", "notes_for_darien": "none"}
RespTemplateNotes ==
    <<"{">> \o Member("guidance", Str(<<"restart", " ", "the", " ", "service">>))
    \o <<",", Blank>> \o Member("notes_for_darien", Str(<<"none">>)) \o <<"}">>

\* {"priority": 1}   (a JSON object with an expected field, 15 characters)
RespShortJson == <<"{">> \o Member("priority", <<"1">>) \o <<"}">>

\* {"answer": "it is 42"}   (an object without any expected field)
RespOtherFields ==
    <<"{">> \o Member("answer", Str(<<"it", " ", "is", " ", "42">>)) \o <<"}">>

\* ["guidance", "priority"]   (JSON, but not an object)
RespArray ==
    <<"[">> \o Str(<<"guidance">>) \o <<",", Blank>> \o Str(<<"priority">>) \o <<"]">>

\* replies to a prompt somebody else typed: plain prose, not JSON
RespTrash == <<"Still", " ", "here", ".", " ", "Still", " ", "stable", ".">>
RespProseFocus == <<"Window", " ", "lost", " ", "focus", " ", "again", ".">>
RespProseNotFound == <<"The", " ", "file", " ", "was", " ", "not", " ", "found", ".">>
RespProseLate == <<Filler, " ", "focus", " ", "timeout", " ", "empty">>

\* clipboard contents too short for step 10 to return
RespTiny == <<"ok", ".">>

ClipboardTexts ==
    { EmptyText, RespTiny, RespValid, RespFenced, RespTemplate, RespTemplatePlan,
      RespTemplateNotes, RespShortJson, RespOtherFields, RespArray, RespTrash,
      RespProseFocus, RespProseNotFound, RespProseLate }

(***************************************************************************)
(* Inputs of one escalate call and the values the OS may hand back         *)
(***************************************************************************)
\* (project_name, conversation) of the command
Requests ==
    { [project |-> <<"Agent", " ", "Expert", " ", "Help">>, conversation |-> <<"o3", " ", "test">>],
      [project |-> <<"Empty", " ", "drafts">>, conversation |-> <<"Focus", " ", "notes">>] }
Messages == { <<"How", " ", "do", " ", "I", " ", "fix", " ", "the", " ", "build", "?">> }

\* None for self.hwnd, and the window handles EnumWindows may report
NoHwnd == 0
Hwnds == {101}

\* None for self.window_rect, and the rects GetWindowRect may report
NoRect == <<>>
Rects == { <<0, 0, 1280, 800>> }

(***************************************************************************)
(* RobustDriver (driver_robust.py)                                         *)
(***************************************************************************)
\* variant: kill_failed is treated as fatal too
NON_RECOVERABLE_with_kill == {"invalid_config", "invalid_response", "kill_failed"}

NON_RECOVERABLE_REASONS == {"invalid_config", "invalid_response"}

max_attempts == 4

\* failed_step of a result that carries none (result.get returns None)
NoStep == 0

step_reasons ==
    [n \in {1, 2, 3, 4, 5, 6, 7, 9, 10} |->
        CASE n = 1 -> "kill_failed"
          [] n = 2 -> "start_failed"
          [] n = 3 -> "focus_failed"
          [] n = 4 -> "sidebar_failed"
          [] n = 5 -> "project_not_found"
          [] n = 6 -> "conversation_not_found"
          [] n = 7 -> "send_failed"
          [] n = 9 -> "response_timeout"
          [] n = 10 -> "copy_failed"]

\* variant: the per-step lookup without the keyword refinement
_derive_error_reason_by_step(step, error) ==
    IF step = NoStep THEN "unknown"
    ELSE IF step \in DOMAIN step_reasons THEN step_reasons[step]
    ELSE "step" \o ToString(step) \o "_failed"

\* _derive_error_reason(step, error)
_derive_error_reason(step, error) ==
    IF step = NoStep THEN "unknown"
    ELSE LET error_lower == Lower(error)
             base_reason == IF step \in DOMAIN step_reasons
                            THEN step_reasons[step]
                            ELSE "step" \o ToString(step) \o "_failed"
         IN IF Contains(error_lower, <<"empty">>)
               \/ Contains(error_lower, <<"too", " ", "short">>)
            THEN "empty_response"
            ELSE IF Contains(error_lower, <<"not", " ", "found">>)
                    \/ Contains(error_lower, <<"failed", " ", "to", " ", "find">>)
            THEN (IF step = 5 THEN "project_not_found"
                  ELSE IF step = 6 THEN "conversation_not_found"
                  ELSE base_reason)
            ELSE IF Contains(error_lower, <<"timeout">>) THEN "timeout"
            ELSE IF Contains(error_lower, <<"focus">>) THEN "focus_lost"
            ELSE IF Contains(error_lower, <<"validation", " ", "failed">>)
            THEN "invalid_response"
            ELSE base_reason

(***************************************************************************)
(* RobustChatGPTFlow.execute_full_flow (robust_flow.py): its constants,    *)
(* the prompts it submits and the results it returns                       *)
(***************************************************************************)
max_nav_retries == 2
max_response_retries == 2

\* response[:100] in the validation error
error_response_chars == 100

ClarifyingPrefix ==
    << "Please ignore any messages above that don't match this format. Here is my actual question:",
       Newline, Newline >>

\* variant: the retry re-sends the prompt as it is
RetryPrompt_unprefixed(prompt, response_attempt) == prompt

\* retry_prompt of the response retry loop
RetryPrompt(prompt, response_attempt) ==
    IF response_attempt > 0 THEN ClarifyingPrefix \o prompt ELSE prompt

FlowSuccess(response) ==
    [success |-> TRUE, response |-> response, error |-> EmptyText, failed_step |-> NoStep]

FlowFailure(error, failed_step) ==
    [success |-> FALSE, response |-> EmptyText, error |-> error, failed_step |-> failed_step]

\* the result before execute_full_flow has returned
NoResult == FlowFailure(EmptyText, NoStep)

ErrKill == <<"Failed", " ", "to", " ", "kill", " ", "ChatGPT">>
ErrStart == <<"Failed", " ", "to", " ", "start", " ", "ChatGPT">>
ErrFocus == <<"Failed", " ", "to", " ", "focus", " ", "ChatGPT">>
ErrSidebar == <<"Failed", " ", "to", " ", "open", " ", "sidebar">>
ErrProject(project_name) ==
    <<"Failed", " ", "to", " ", "find", " ", "project", " ", "'">> \o project_name \o <<"'">>
ErrConversation(conversation_name) ==
    <<"Failed", " ", "to", " ", "find", " ", "conversation", " ", "'">>
    \o conversation_name \o <<"'">>
ErrSend == <<"Failed", " ", "to", " ", "focus", "/", "send", " ", "prompt">>
ErrWait == <<"Timeout", " ", "waiting", " ", "for", " ", "response">>
ErrCopy == <<"Failed", " ", "to", " ", "copy", " ", "response">>
ErrValidation(response) ==
    <<"Response", " ", "validation", " ", "failed", " ", "after", " ",
      ToString(max_response_retries + 1), " ", "attempts", ".", " ",
      "Last", " ", "response", ":", " ">>
    \o Prefix(response, error_response_chars)

(***************************************************************************)
(* State                                                                   *)
(***************************************************************************)
VARIABLES
    pc,               \* position: "idle", "step1" .. "step10", "nav4", "nav5",
                      \* "returned" (execute_full_flow returned), "done"
    project_name,     \* arguments of escalate
    conversation,
    message,
    attempt,          \* escalate: loop variable of the retry loop
    last_error,       \* escalate: details of the last failed run
    last_step,
    last_reason,
    ret,              \* escalate: the returned dict
    flow_id,          \* which RobustChatGPTFlow instance self.flow is (1 = __init__)
    hwnd,             \* self.flow.hwnd
    window_rect,      \* self.flow.window_rect
    nav_attempt,      \* execute_full_flow: loop variable of the navigation loop
    response_attempt, \* execute_full_flow: loop variable of the response loop
    response,         \* execute_full_flow: the text step 10 returned last
    result,           \* the dict execute_full_flow returned
    calls,            \* history: invocations of execute_full_flow in this call
    trace,            \* history: step invocations of the current run, with outcome
    submitted,        \* history: prompts submitted (Enter sent) in the current run
    only_step7        \* history: every finished run of this call failed at step 7

flowVars == << pc, project_name, conversation, message, attempt, last_error, last_step,
               last_reason, ret, flow_id, hwnd, window_rect, nav_attempt, response_attempt,
               response, result, calls, trace, submitted, only_step7 >>

inputVars == << project_name, conversation, message >>
escalateVars == << attempt, last_error, last_step, last_reason, ret, flow_id, calls, only_step7 >>
windowVars == << hwnd, window_rect >>

\* the dict escalate has not returned yet
NoReturn ==
    [success |-> FALSE, response |-> EmptyText, error |-> EmptyText,
     failed_step |-> NoStep, error_reason |-> "", attempts |-> 0]

(***************************************************************************)
(* State of the components below the flow.  Each component is checked      *)
(* under its own specification; a specification holds the variables of     *)
(* the other components at their parked values.                            *)
(***************************************************************************)
VARIABLES
    click_pc,         \* _safe_click/_ensure_foreground: the primitive to run next
    fg_attempt,       \* _ensure_foreground: loop variable attempt
    foreground,       \* OS: which window GetForegroundWindow returns
    iconic,           \* OS: the tracked window is minimized
    click_ret,        \* what the last _safe_click returned
    click_calls,      \* history: _safe_click calls made
    clicks,           \* history: per click issued, did it land on the foreground ChatGPT
    click_log         \* history: per _safe_click call that ended, what it did

clickVars == << click_pc, fg_attempt, foreground, iconic, click_ret, click_calls, clicks,
               click_log >>

VARIABLES
    viable_pc,     \* _ensure_window_viable: the part to run next
    step_no,       \* the step of the flow that is running
    os_rect,       \* OS: where the window is
    tracked_rect,  \* self.window_rect
    rect_step,     \* history: the step in which self.window_rect was last read
    coord_uses     \* history: per coordinate-based action, its step and its rect

rectVars == << viable_pc, step_no, os_rect, tracked_rect, rect_step, coord_uses >>

RectParked ==
    /\ viable_pc = "parked"
    /\ step_no = 0
    /\ os_rect = NoRect
    /\ tracked_rect = NoRect
    /\ rect_step = 0
    /\ coord_uses = {}

VARIABLES
    s6_pc,              \* step6_click_conversation: the part to run next
    conversation_name,  \* step6_click_conversation: its argument
    s6_attempt,         \* step6_click_conversation: loop variable attempt
    title,              \* OS: the title of the ChatGPT window
    s6_ret,             \* what step6_click_conversation returned
    s6_matched          \* history: what _fuzzy_match said about the title before the return

step6Vars == << s6_pc, conversation_name, s6_attempt, title, s6_ret, s6_matched >>

Step6Parked ==
    /\ s6_pc = "parked"
    /\ conversation_name = EmptyText
    /\ s6_attempt = 0
    /\ title = EmptyText
    /\ s6_ret = "none"
    /\ s6_matched = "none"

VARIABLES
    kill_pc,      \* step1_kill_chatgpt: the part to run next
    procs,        \* OS: the processes, by pid
    kill_todo,    \* step1_kill_chatgpt: what is left of psutil.process_iter()
    killed,       \* step1_kill_chatgpt: local killed
    terminating,  \* OS: the processes that were told to terminate
    kill_polls,   \* step1_kill_chatgpt: iterations of the poll so far
    kill_ret      \* what step1_kill_chatgpt returned

killVars == << kill_pc, procs, kill_todo, killed, terminating, kill_polls, kill_ret >>

KillParked ==
    /\ kill_pc = "parked"
    /\ procs = <<>>
    /\ kill_todo = <<>>
    /\ killed = FALSE
    /\ terminating = {}
    /\ kill_polls = 0
    /\ kill_ret = "none"

VARIABLES
    wait_pc,              \* step9_wait_for_response: the part to run next
    generation_started,   \* step9_wait_for_response: local generation_started
    consecutive_idle,     \* step9_wait_for_response: local consecutive_idle
    foreground_failures,  \* step9_wait_for_response: local foreground_failures
    wait_polls,           \* iterations of the poll loop so far
    wait_ret,             \* what step9_wait_for_response returned
    wait_phase,           \* the status of the last log_phase(9, ...) line
    idle_run,             \* history: idle readings since the last other reading or failed check
    lost_run              \* history: failed foreground checks since the last one that succeeded

waitVars == << wait_pc, generation_started, consecutive_idle, foreground_failures, wait_polls, wait_ret, wait_phase, idle_run, lost_run >>

WaitParked ==
    /\ wait_pc = "parked"
    /\ generation_started = FALSE
    /\ consecutive_idle = 0
    /\ foreground_failures = 0
    /\ wait_polls = 0
    /\ wait_ret = "none"
    /\ wait_phase = ""
    /\ idle_run = 0
    /\ lost_run = 0

VARIABLES
    retry_pc,       \* _retry_with_recovery: the call to make next
    retry_max,      \* _retry_with_recovery: parameter max_attempts
    retry_attempt,  \* _retry_with_recovery: loop variable attempt
    retry_ret,      \* what _retry_with_recovery returned
    op_calls,       \* history: invocations of operation
    op_raises,      \* history: invocations of operation that raised
    retry_log       \* history: the recovery calls and the invocations, by attempt

retryVars == << retry_pc, retry_max, retry_attempt, retry_ret, op_calls, op_raises,
               retry_log >>

RetryParked ==
    /\ retry_pc = "parked"
    /\ retry_max = 0
    /\ retry_attempt = 0
    /\ retry_ret = "none"
    /\ op_calls = 0
    /\ op_raises = 0
    /\ retry_log = <<>>

VARIABLES
    guard_pc,          \* execute_full_flow: the call to make next
    blocked,           \* input_blocked: local blocked
    _input_blocked,    \* robust_flow: global _input_blocked
    unblock_requests,  \* history: calls of block_input(False)
    project_attempt,   \* step5_click_project: loop variable attempt
    leaving,           \* how the with block is being left: by which return, or by an exception
    raised_in          \* history: the call that raised

guardVars == << guard_pc, blocked, _input_blocked, unblock_requests, project_attempt, leaving, raised_in >>

GuardParked ==
    /\ guard_pc = "parked"
    /\ blocked = FALSE
    /\ _input_blocked = FALSE
    /\ unblock_requests = 0
    /\ project_attempt = 0
    /\ leaving = "none"
    /\ raised_in = "none"

VARIABLES
    _ocr_instance,  \* ocr_extraction: global _ocr_instance
    _ocr_loading,   \* ocr_extraction: global _ocr_loading
    _ocr_lock,      \* ocr_extraction: who holds _ocr_lock
    preload_pc,     \* _preload_ocr: the statement to run next
    get_pc,         \* get_ocr: per caller, the statement to run next
    get_ret,        \* get_ocr: per caller, what it returned
    published       \* history: the engines stored in _ocr_instance, in order

ocrVars == << _ocr_instance, _ocr_loading, _ocr_lock, preload_pc, get_pc, get_ret,
             published >>

OcrParked ==
    /\ _ocr_instance = "None"
    /\ _ocr_loading = FALSE
    /\ _ocr_lock = 0
    /\ preload_pc = "parked"
    /\ get_pc = <<>>
    /\ get_ret = <<>>
    /\ published = <<>>

VARIABLES
    main_pc,     \* main: the statement to run next
    stdin_text,  \* what sys.stdin.read() returns
    command,     \* main: local command
    handler,     \* main: the RobustDriver method the request selected
    stdout       \* the objects printed to stdout

mainVars == << main_pc, stdin_text, command, handler, stdout >>

MainParked ==
    /\ main_pc = "parked"
    /\ stdin_text = EmptyText
    /\ command = [t |-> "none"]
    /\ handler = "none"
    /\ stdout = <<>>

VARIABLES
    timeout_pc,       \* the command: not started, waiting in step 9, or done
    timeout_command,  \* the command of the request
    timeout_ms,       \* its parameter timeout_ms
    step9_timeout,    \* step9_wait_for_response: parameter timeout
    elapsed,          \* step9_wait_for_response: time.time() - start_time
    timeout_ret       \* what step9_wait_for_response returned

timeoutVars == << timeout_pc, timeout_command, timeout_ms, step9_timeout, elapsed, timeout_ret >>

TimeoutParked ==
    /\ timeout_pc = "parked"
    /\ timeout_command = "none"
    /\ timeout_ms = 0
    /\ step9_timeout = 0
    /\ elapsed = 0
    /\ timeout_ret = "none"

VARIABLES
    fuzzy_pc,          \* the call: to be made, or done
    fuzzy_function,    \* the function called
    fuzzy_target,      \* its argument target
    fuzzy_text,        \* fuzzy_contains: its argument text
    fuzzy_candidates,  \* fuzzy_match: its argument candidates
    fuzzy_threshold,   \* its argument threshold
    fuzzy_ret          \* what it returned

fuzzyVars == << fuzzy_pc, fuzzy_function, fuzzy_target, fuzzy_text, fuzzy_candidates, fuzzy_threshold, fuzzy_ret >>

FuzzyParked ==
    /\ fuzzy_pc = "parked"
    /\ fuzzy_function = "none"
    /\ fuzzy_target = <<>>
    /\ fuzzy_text = <<>>
    /\ fuzzy_candidates = <<>>
    /\ fuzzy_threshold = [num |-> 0, den |-> 1]
    /\ fuzzy_ret = [none |-> TRUE]

VARIABLES
    scan_pc,         \* the scan: about to scroll, about to capture, or done
    scroll_attempt,  \* the loop variable scroll_attempt
    initial_view,    \* the view the window showed when the scan began
    view,            \* the view the window shows
    label_view,      \* the view in which the OCR recognises the label
    scroll_actions,  \* the calls of scroll() made so far
    scan_disturbed,  \* a focus check or the click has failed
    scan_ret         \* what the scan returned

scanVars == << scan_pc, scroll_attempt, initial_view, view, label_view, scroll_actions, scan_disturbed, scan_ret >>

ScanParked ==
    /\ scan_pc = "parked"
    /\ scroll_attempt = 0
    /\ initial_view = 0
    /\ view = 0
    /\ label_view = 0
    /\ scroll_actions = 0
    /\ scan_disturbed = FALSE
    /\ scan_ret = "none"

VARIABLES
    button_pc,           \* the call: to be made, or done
    button_dark_pixels,  \* the number of dark pixels in the captured area
    button_state         \* what _get_input_button_state returned

buttonVars == << button_pc, button_dark_pixels, button_state >>

ButtonParked ==
    /\ button_pc = "parked"
    /\ button_dark_pixels = 0
    /\ button_state = "none"

VARIABLES
    hover_pc,     \* the call: to be made, or done
    sidebar_img,  \* the image: its bands from top to bottom
    hover_rows,   \* what analyze_rows returned
    hover_ret     \* what find_highlighted_row returned

hoverVars == << hover_pc, sidebar_img, hover_rows, hover_ret >>

HoverParked ==
    /\ hover_pc = "parked"
    /\ sidebar_img = <<>>
    /\ hover_rows = <<>>
    /\ hover_ret = [none |-> TRUE]

VARIABLES
    front_pc,          \* _ensure_foreground: the call to make next
    front_attempt,     \* _ensure_foreground: loop variable attempt
    os_window,         \* OS: the ChatGPT window is in front, behind, minimized or closed
    os_window_rect,    \* OS: where the window is
    self_hwnd,         \* self.hwnd
    self_window_rect,  \* self.window_rect
    front_entry,       \* history: self.hwnd and self.window_rect at the call
    front_log,         \* history: the reads of the foreground window and of the rectangle
    front_calls,       \* history: the restore, focus, show and thread-attach calls issued
    front_ret          \* what _ensure_foreground returned

frontVars == << front_pc, front_attempt, os_window, os_window_rect, self_hwnd, self_window_rect, front_entry, front_log, front_calls, front_ret >>

FrontParked ==
    /\ front_pc = "parked"
    /\ front_attempt = 0
    /\ os_window = "foreground"
    /\ os_window_rect = "left"
    /\ self_hwnd = "none"
    /\ self_window_rect = "left"
    /\ front_entry = <<>>
    /\ front_log = <<>>
    /\ front_calls = {}
    /\ front_ret = "none"

VARIABLES
    attach_pc,        \* _ensure_foreground: the call to make next
    attach_attempt,   \* _ensure_foreground: loop variable attempt
    fg_thread,        \* the thread of the window that was in front
    thread_attached,  \* OS: the thread whose input is attached to the target thread
    focus_raised,     \* an exception of the focus calls is pending in the finally
    attaches,         \* history: AttachThreadInput(..., True) calls that succeeded
    detaches,         \* history: AttachThreadInput(..., False) calls issued
    attach_ret        \* what _ensure_foreground returned

attachVars == << attach_pc, attach_attempt, fg_thread, thread_attached, focus_raised, attaches, detaches, attach_ret >>

AttachParked ==
    /\ attach_pc = "parked"
    /\ attach_attempt = 0
    /\ fg_thread = "no thread"
    /\ thread_attached = "no thread"
    /\ focus_raised = FALSE
    /\ attaches = 0
    /\ detaches = 0
    /\ attach_ret = "none"

VARIABLES
    send_pc,         \* step7_send_prompt: the part to run next
    probe,           \* the loop variable attempt of the probes
    verify_entry,    \* the parameter verify_entry
    input_text,      \* what the input box holds
    clipboard_text,  \* what the clipboard holds
    probe_state,     \* the button state read in this probe
    verified_input,  \* history: what the input box held when _verify_prompt_entry returned True in this probe
    enter_log,       \* history: per Enter sent, the probe, its button state and its verification
    send_ret         \* what step7_send_prompt returned

sendVars == << send_pc, probe, verify_entry, input_text, clipboard_text, probe_state, verified_input, enter_log, send_ret >>

SendParked ==
    /\ send_pc = "parked"
    /\ probe = 0
    /\ verify_entry = FALSE
    /\ input_text = <<>>
    /\ clipboard_text = <<>>
    /\ probe_state = "none"
    /\ verified_input = <<>>
    /\ enter_log = <<>>
    /\ send_ret = "none"

VARIABLES
    copy_pc,        \* step10_copy_response: the part to run next
    outer_attempt,  \* the loop variable attempt of the outer loop
    extra_tab,      \* the loop variable i of the extra Shift+Tabs
    toolbar,        \* the buttons under the last response, in Shift+Tab order
    focus,          \* OS: the position of the control that holds the keyboard focus
    btn_name,       \* the name read by get_focused_button_name
    activations,    \* history: per activation, the name read before and the control activated
    copy_ret        \* what step10_copy_response returned

copyVars == << copy_pc, outer_attempt, extra_tab, toolbar, focus, btn_name, activations, copy_ret >>

CopyParked ==
    /\ copy_pc = "parked"
    /\ outer_attempt = 0
    /\ extra_tab = 0
    /\ toolbar = <<>>
    /\ focus = 0
    /\ btn_name = <<>>
    /\ activations = {}
    /\ copy_ret = "none"

VARIABLES
    s5_pc,       \* step5_click_project: the statement to run next
    s5_project,  \* the argument project_name
    s5_attempt,  \* the loop variable attempt
    s5_scans,    \* history: the calls of _find_and_click_sidebar_item
    s5_log,      \* history: what the current attempt found, read and cross-checked
    s5_ret       \* what step5_click_project returned

projectVars == << s5_pc, s5_project, s5_attempt, s5_scans, s5_log, s5_ret >>

ProjectParked ==
    /\ s5_pc = "parked"
    /\ s5_project = <<>>
    /\ s5_attempt = 0
    /\ s5_scans = 0
    /\ s5_log = [found |-> FALSE]
    /\ s5_ret = "none"

VARIABLES
    reason_pc,            \* escalate after a failed flow run: the statement to run next
    reason_project,       \* the argument project_name
    reason_conversation,  \* the argument conversation_name
    reason_result,        \* the result of execute_full_flow
    reason_code           \* the value of _derive_error_reason

reasonVars == << reason_pc, reason_project, reason_conversation, reason_result, reason_code >>

ReasonParked ==
    /\ reason_pc = "parked"
    /\ reason_project = <<>>
    /\ reason_conversation = <<>>
    /\ reason_result = [success |-> FALSE]
    /\ reason_code = "none"

VARIABLES
    corr_pc,           \* _find_and_click_sidebar_item: the statement to run next
    matches_y,         \* click_y of the OCR matches of the pass
    match_idx,         \* the match the for loop is at
    click_y,           \* click_y of the match clicked
    highlight,         \* hi, the highlighted row detected after the click
    sidebar_clicks,    \* history: the clicks made, in order
    corrective_calls,  \* history: the calls of _safe_click for a correction
    corr_ret           \* what the pass ended with

correctiveVars == << corr_pc, matches_y, match_idx, click_y, highlight, sidebar_clicks, corrective_calls, corr_ret >>

CorrectiveParked ==
    /\ corr_pc = "parked"
    /\ matches_y = <<>>
    /\ match_idx = 0
    /\ click_y = 0
    /\ highlight = [none |-> TRUE]
    /\ sidebar_clicks = <<>>
    /\ corrective_calls = 0
    /\ corr_ret = "none"

VARIABLES
    importing,  \* the module whose start_ocr_preload call is due
    start_pc,   \* start_ocr_preload: the statement to run next
    warm_pc     \* _preload_ocr: per thread, the statement to run next

warmVars == << importing, start_pc, warm_pc >>

WarmParked ==
    /\ importing = "parked"
    /\ start_pc = "parked"
    /\ warm_pc = <<>>

VARIABLES
    term_pc,       \* escalate and execute_full_flow: the loop or step to run next
    run_attempt,   \* escalate: the loop variable attempt
    nav_try,       \* execute_full_flow: the loop variable nav_attempt
    response_try,  \* execute_full_flow: the loop variable response_attempt
    slept,         \* the sleeps of the polling loop of the step being run
    flow_runs,     \* history: the calls of execute_full_flow
    nav_tries,     \* history: the rounds of the navigation loop in the current run
    prompt_sends,  \* history: the prompts submitted in the current run
    flow_result,   \* what execute_full_flow returned
    term_ret       \* what escalate returned

termVars == << term_pc, run_attempt, nav_try, response_try, slept, flow_runs, nav_tries, prompt_sends, flow_result, term_ret >>

TermParked ==
    /\ term_pc = "parked"
    /\ run_attempt = 0
    /\ nav_try = 0
    /\ response_try = 0
    /\ slept = 0
    /\ flow_runs = 0
    /\ nav_tries = 0
    /\ prompt_sends = 0
    /\ flow_result = "none"
    /\ term_ret = "none"

vars == << flowVars, clickVars, rectVars, step6Vars, killVars, waitVars, retryVars, guardVars, ocrVars, mainVars, timeoutVars, fuzzyVars,
           scanVars, buttonVars, hoverVars, frontVars, attachVars, sendVars, copyVars, projectVars, reasonVars, correctiveVars, warmVars, termVars >>

ClickParked ==
    /\ click_pc = "parked"
    /\ fg_attempt = 0
    /\ foreground = "chatgpt"
    /\ iconic = FALSE
    /\ click_ret = "none"
    /\ click_calls = 0
    /\ clicks = <<>>
    /\ click_log = <<>>

FlowParked ==
    /\ pc = "parked"
    /\ project_name = EmptyText
    /\ conversation = EmptyText
    /\ message = EmptyText
    /\ attempt = 0
    /\ last_error = EmptyText
    /\ last_step = NoStep
    /\ last_reason = ""
    /\ ret = NoReturn
    /\ flow_id = 1
    /\ hwnd = NoHwnd
    /\ window_rect = NoRect
    /\ nav_attempt = 0
    /\ response_attempt = 0
    /\ response = EmptyText
    /\ result = NoResult
    /\ calls = 0
    /\ trace = <<>>
    /\ submitted = <<>>
    /\ only_step7 = TRUE

\* the components named in S start by themselves, the others are parked
Parked(S) ==
    /\ IF "flow" \in S THEN TRUE ELSE FlowParked
    /\ IF "click" \in S THEN TRUE ELSE ClickParked
    /\ IF "rect" \in S THEN TRUE ELSE RectParked
    /\ IF "step6" \in S THEN TRUE ELSE Step6Parked
    /\ IF "kill" \in S THEN TRUE ELSE KillParked
    /\ IF "wait" \in S THEN TRUE ELSE WaitParked
    /\ IF "retry" \in S THEN TRUE ELSE RetryParked
    /\ IF "guard" \in S THEN TRUE ELSE GuardParked
    /\ IF "ocr" \in S THEN TRUE ELSE OcrParked
    /\ IF "main" \in S THEN TRUE ELSE MainParked
    /\ IF "timeout" \in S THEN TRUE ELSE TimeoutParked
    /\ IF "fuzzy" \in S THEN TRUE ELSE FuzzyParked
    /\ IF "scan" \in S THEN TRUE ELSE ScanParked
    /\ IF "button" \in S THEN TRUE ELSE ButtonParked
    /\ IF "hover" \in S THEN TRUE ELSE HoverParked
    /\ IF "front" \in S THEN TRUE ELSE FrontParked
    /\ IF "attach" \in S THEN TRUE ELSE AttachParked
    /\ IF "send" \in S THEN TRUE ELSE SendParked
    /\ IF "copy" \in S THEN TRUE ELSE CopyParked
    /\ IF "project" \in S THEN TRUE ELSE ProjectParked
    /\ IF "reason" \in S THEN TRUE ELSE ReasonParked
    /\ IF "corrective" \in S THEN TRUE ELSE CorrectiveParked
    /\ IF "warm" \in S THEN TRUE ELSE WarmParked
    /\ IF "term" \in S THEN TRUE ELSE TermParked

\* the components named in S may change, the others do not
Frame(S) ==
    /\ IF "flow" \in S THEN TRUE ELSE UNCHANGED flowVars
    /\ IF "click" \in S THEN TRUE ELSE UNCHANGED clickVars
    /\ IF "rect" \in S THEN TRUE ELSE UNCHANGED rectVars
    /\ IF "step6" \in S THEN TRUE ELSE UNCHANGED step6Vars
    /\ IF "kill" \in S THEN TRUE ELSE UNCHANGED killVars
    /\ IF "wait" \in S THEN TRUE ELSE UNCHANGED waitVars
    /\ IF "retry" \in S THEN TRUE ELSE UNCHANGED retryVars
    /\ IF "guard" \in S THEN TRUE ELSE UNCHANGED guardVars
    /\ IF "ocr" \in S THEN TRUE ELSE UNCHANGED ocrVars
    /\ IF "main" \in S THEN TRUE ELSE UNCHANGED mainVars
    /\ IF "timeout" \in S THEN TRUE ELSE UNCHANGED timeoutVars
    /\ IF "fuzzy" \in S THEN TRUE ELSE UNCHANGED fuzzyVars
    /\ IF "scan" \in S THEN TRUE ELSE UNCHANGED scanVars
    /\ IF "button" \in S THEN TRUE ELSE UNCHANGED buttonVars
    /\ IF "hover" \in S THEN TRUE ELSE UNCHANGED hoverVars
    /\ IF "front" \in S THEN TRUE ELSE UNCHANGED frontVars
    /\ IF "attach" \in S THEN TRUE ELSE UNCHANGED attachVars
    /\ IF "send" \in S THEN TRUE ELSE UNCHANGED sendVars
    /\ IF "copy" \in S THEN TRUE ELSE UNCHANGED copyVars
    /\ IF "project" \in S THEN TRUE ELSE UNCHANGED projectVars
    /\ IF "reason" \in S THEN TRUE ELSE UNCHANGED reasonVars
    /\ IF "corrective" \in S THEN TRUE ELSE UNCHANGED correctiveVars
    /\ IF "warm" \in S THEN TRUE ELSE UNCHANGED warmVars
    /\ IF "term" \in S THEN TRUE ELSE UNCHANGED termVars

OnlyFlow == Frame({"flow"})
OnlyClick == Frame({"click"})
OnlyRect == Frame({"rect"})
OnlyStep6 == Frame({"step6"})
OnlyKill == Frame({"kill"})
OnlyWait == Frame({"wait"})
OnlyRetry == Frame({"retry"})
OnlyGuard == Frame({"guard"})
OnlyOcr == Frame({"ocr"})
OnlyMain == Frame({"main"})
OnlyTimeout == Frame({"timeout"})
OnlyFuzzy == Frame({"fuzzy"})
OnlyScan == Frame({"scan"})
OnlyButton == Frame({"button"})
OnlyHover == Frame({"hover"})
OnlyFront == Frame({"front"})
OnlyAttach == Frame({"attach"})
OnlySend == Frame({"send"})
OnlyCopy == Frame({"copy"})
OnlyProject == Frame({"project"})
OnlyReason == Frame({"reason"})
OnlyCorrective == Frame({"corrective"})
OnlyWarm == Frame({"warm"})
OnlyTerm == Frame({"term"})

\* RobustDriver.__init__ followed by the arrival of one escalate command
Init ==
    /\ pc = "idle"
    /\ \E q \in Requests : project_name = q.project /\ conversation = q.conversation
    /\ message \in Messages
    /\ attempt = 0
    /\ last_error = EmptyText
    /\ last_step = NoStep
    /\ last_reason = ""
    /\ ret = NoReturn
    /\ flow_id = 1
    /\ hwnd = NoHwnd
    /\ window_rect = NoRect
    /\ nav_attempt = 0
    /\ response_attempt = 0
    /\ response = EmptyText
    /\ result = NoResult
    /\ calls = 0
    /\ trace = <<>>
    /\ submitted = <<>>
    /\ only_step7 = TRUE
    /\ Parked({"flow"})

(***************************************************************************)
(* execute_full_flow, one action per step invocation.  What a step does    *)
(* inside is the environment's choice here: it returns success or failure. *)
(***************************************************************************)

\* entry of execute_full_flow: locals and the per-run history start afresh
EnterFlow ==
    /\ pc' = "step1"
    /\ nav_attempt' = 0
    /\ response_attempt' = 0
    /\ response' = EmptyText
    /\ result' = NoResult
    /\ trace' = <<>>
    /\ submitted' = <<>>
    /\ calls' = calls + 1

\* return r from execute_full_flow
ReturnFlow(r) ==
    /\ result' = r
    /\ pc' = "returned"

Invoked(step, ok) == trace' = Append(trace, [step |-> step, ok |-> ok])

\* _ensure_window_viable at the start of a step: the handle may be found anew
\* and the rect read again
WindowRefresh ==
    /\ hwnd' \in Hwnds
    /\ window_rect' \in Rects

step1_kill_chatgpt ==
    /\ pc = "step1"
    /\ \E ok \in BOOLEAN :
         /\ Invoked(1, ok)
         /\ IF ok THEN pc' = "step2" /\ result' = result
                  ELSE ReturnFlow(FlowFailure(ErrKill, 1))
    /\ OnlyFlow
    /\ UNCHANGED << inputVars, escalateVars, windowVars, nav_attempt, response_attempt,
                    response, submitted >>

step2_start_chatgpt ==
    /\ pc = "step2"
    /\ \E ok \in BOOLEAN :
         /\ Invoked(2, ok)
         /\ IF ok THEN /\ pc' = "step3"
                       /\ result' = result
                       /\ hwnd' \in Hwnds
                       /\ window_rect' \in Rects
                  ELSE /\ ReturnFlow(FlowFailure(ErrStart, 2))
                       /\ UNCHANGED windowVars
    /\ OnlyFlow
    /\ UNCHANGED << inputVars, escalateVars, nav_attempt, response_attempt, response,
                    submitted >>

step3_focus_chatgpt ==
    /\ pc = "step3"
    /\ \E ok \in BOOLEAN :
         /\ Invoked(3, ok)
         /\ IF ok THEN /\ pc' = "step4"
                       /\ result' = result
                       /\ window_rect' \in Rects
                  ELSE /\ ReturnFlow(FlowFailure(ErrFocus, 3))
                       /\ UNCHANGED window_rect
    /\ OnlyFlow
    /\ UNCHANGED << inputVars, escalateVars, hwnd, nav_attempt, response_attempt,
                    response, submitted >>

step4_open_sidebar ==
    /\ pc = "step4"
    /\ WindowRefresh
    /\ \E ok \in BOOLEAN :
         /\ Invoked(4, ok)
         /\ IF ok THEN pc' = "step5" /\ result' = result
                  ELSE ReturnFlow(FlowFailure(ErrSidebar, 4))
    /\ OnlyFlow
    /\ UNCHANGED << inputVars, escalateVars, nav_attempt, response_attempt, response,
                    submitted >>

\* variant: the flow goes on to step 6 whatever step 5 returned
step5_result_ignored ==
    /\ pc = "step5"
    /\ WindowRefresh
    /\ \E ok \in BOOLEAN : Invoked(5, ok)
    /\ pc' = "step6"
    /\ OnlyFlow
    /\ UNCHANGED << inputVars, escalateVars, nav_attempt, response_attempt, response,
                    submitted, result >>

step5_click_project ==
    /\ pc = "step5"
    /\ WindowRefresh
    /\ \E ok \in BOOLEAN :
         /\ Invoked(5, ok)
         /\ IF ok THEN pc' = "step6" /\ result' = result
                  ELSE ReturnFlow(FlowFailure(ErrProject(project_name), 5))
    /\ OnlyFlow
    /\ UNCHANGED << inputVars, escalateVars, nav_attempt, response_attempt, response,
                    submitted >>

\* variant: the navigation retry goes back to step 3
NextNavAttempt_from_focus ==
    IF nav_attempt + 1 < max_nav_retries + 1
    THEN /\ nav_attempt' = nav_attempt + 1
         /\ pc' = "step3"
         /\ result' = result
    ELSE /\ nav_attempt' = nav_attempt
         /\ ReturnFlow(FlowFailure(ErrConversation(conversation), 6))

\* the end of one pass of the navigation loop that did not reach "break":
\* the next pass starts with the retry block, or the loop's else clause returns
NextNavAttempt ==
    IF nav_attempt + 1 < max_nav_retries + 1
    THEN /\ nav_attempt' = nav_attempt + 1
         /\ pc' = "nav4"
         /\ result' = result
    ELSE /\ nav_attempt' = nav_attempt
         /\ ReturnFlow(FlowFailure(ErrConversation(conversation), 6))

step6_click_conversation ==
    /\ pc = "step6"
    /\ WindowRefresh
    /\ \E ok \in BOOLEAN :
         /\ Invoked(6, ok)
         /\ IF ok THEN pc' = "step7" /\ result' = result /\ nav_attempt' = nav_attempt
                  ELSE NextNavAttempt
    /\ OnlyFlow
    /\ UNCHANGED << inputVars, escalateVars, response_attempt, response, submitted >>

\* retry block of the navigation loop: _ensure_foreground (result ignored),
\* then step4_open_sidebar again
nav_retry_open_sidebar ==
    /\ pc = "nav4"
    /\ WindowRefresh
    /\ \E ok \in BOOLEAN :
         /\ Invoked(4, ok)
         /\ IF ok THEN pc' = "nav5" /\ result' = result /\ nav_attempt' = nav_attempt
                  ELSE NextNavAttempt
    /\ OnlyFlow
    /\ UNCHANGED << inputVars, escalateVars, response_attempt, response, submitted >>

\* retry block of the navigation loop: step5_click_project again
nav_retry_click_project ==
    /\ pc = "nav5"
    /\ WindowRefresh
    /\ \E ok \in BOOLEAN :
         /\ Invoked(5, ok)
         /\ IF ok THEN pc' = "step6" /\ result' = result /\ nav_attempt' = nav_attempt
                  ELSE NextNavAttempt
    /\ OnlyFlow
    /\ UNCHANGED << inputVars, escalateVars, response_attempt, response, submitted >>

\* step 7+8: returns True exactly when it has pressed Enter on retry_prompt
step7_send_prompt ==
    /\ pc = "step7"
    /\ WindowRefresh
    /\ \E ok \in BOOLEAN :
         /\ Invoked(7, ok)
         /\ IF ok THEN /\ pc' = "step9"
                       /\ result' = result
                       /\ submitted' = Append(submitted, RetryPrompt(message, response_attempt))
                  ELSE /\ ReturnFlow(FlowFailure(ErrSend, 7))
                       /\ submitted' = submitted
    /\ OnlyFlow
    /\ UNCHANGED << inputVars, escalateVars, nav_attempt, response_attempt, response >>

\* variant: a timeout of step 9 does not stop the flow
step9_timeout_ignored ==
    /\ pc = "step9"
    /\ WindowRefresh
    /\ \E ok \in BOOLEAN : Invoked(9, ok)
    /\ pc' = "step10"
    /\ OnlyFlow
    /\ UNCHANGED << inputVars, escalateVars, nav_attempt, response_attempt, response,
                    submitted, result >>

step9_wait_for_response ==
    /\ pc = "step9"
    /\ WindowRefresh
    /\ \E ok \in BOOLEAN :
         /\ Invoked(9, ok)
         /\ IF ok THEN pc' = "step10" /\ result' = result
                  ELSE ReturnFlow(FlowFailure(ErrWait, 9))
    /\ OnlyFlow
    /\ UNCHANGED << inputVars, escalateVars, nav_attempt, response_attempt, response,
                    submitted >>

\* what step10_copy_response returns when the clipboard holds text: every
\* path returns the text only if it has more than 5 characters, else ""
min_copy_len == 5
CopyResult(text) == IF TextLen(text) > min_copy_len THEN text ELSE EmptyText

\* step 10 and the validation of what it copied
step10_copy_response ==
    /\ pc = "step10"
    /\ WindowRefresh
    /\ \E text \in ClipboardTexts :
         LET copied == CopyResult(text) IN
         /\ response' = copied
         /\ Invoked(10, copied # EmptyText)
         /\ IF copied = EmptyText
            THEN /\ ReturnFlow(FlowFailure(ErrCopy, 10))
                 /\ response_attempt' = response_attempt
            ELSE IF _is_valid_json_response(copied)
            THEN /\ ReturnFlow(FlowSuccess(copied))
                 /\ response_attempt' = response_attempt
            ELSE IF response_attempt + 1 < max_response_retries + 1
            THEN /\ response_attempt' = response_attempt + 1
                 /\ pc' = "step7"
                 /\ result' = result
            ELSE /\ response_attempt' = response_attempt
                 /\ ReturnFlow(FlowFailure(ErrValidation(copied), 10))
    /\ OnlyFlow
    /\ UNCHANGED << inputVars, escalateVars, nav_attempt, submitted >>

(***************************************************************************)
(* RobustDriver.escalate                                                   *)
(***************************************************************************)

\* response and len(response.strip()) > 10
min_stripped_len == 10
HasResponse(r) == r.response # EmptyText /\ TextLen(Strip(r.response)) > min_stripped_len

\* what one iteration of the retry loop records for a run that did not
\* produce a usable response, and whether it leaves the loop with "break"
RunFailure(r) ==
    IF r.success
    THEN [error |-> <<"Response", " ", "was", " ", "empty", " ", "or", " ", "too", " ", "short">>,
          step |-> 10, reason |-> "empty_response", stop |-> FALSE]
    ELSE LET error_reason == _derive_error_reason(r.failed_step, r.error) IN
         [error |-> r.error, step |-> r.failed_step, reason |-> error_reason,
          stop |-> error_reason \in NON_RECOVERABLE_REASONS]

WarningText ==
    "IMPORTANT: Please keep your hands off the keyboard and mouse while the agent is working with ChatGPT."

\* user_message
UserMessage(step, reason, error) ==
    <<"ChatGPT", " ", "escalation", " ", "failed", " ", "after", " ", ToString(max_attempts),
      " ", "attempts", ".", " ", "Last", " ", "failure", " ", "was", " ", "at", " ", "step",
      " ", ToString(step), " ", "(", reason, ")", ":", " ">>
    \o error \o <<".", " ", Newline, Newline, WarningText>>

\* escalate is called: first pass of the retry loop, on the flow of __init__
escalate_call ==
    /\ pc = "idle"
    /\ EnterFlow
    /\ OnlyFlow
    /\ UNCHANGED << inputVars, attempt, last_error, last_step, last_reason, ret, flow_id,
                    only_step7, windowVars >>

\* the run succeeded with a usable response: escalate returns it
escalate_return_success ==
    /\ pc = "returned"
    /\ result.success /\ HasResponse(result)
    /\ ret' = [success |-> TRUE, response |-> result.response, error |-> EmptyText,
               failed_step |-> NoStep, error_reason |-> "", attempts |-> attempt + 1]
    /\ only_step7' = FALSE
    /\ pc' = "done"
    /\ OnlyFlow
    /\ UNCHANGED << inputVars, attempt, last_error, last_step, last_reason, flow_id, calls,
                    windowVars, nav_attempt, response_attempt, response, result, trace,
                    submitted >>

\* the run failed, the loop goes on: a fresh RobustChatGPTFlow runs the flow
escalate_retry ==
    /\ pc = "returned"
    /\ ~(result.success /\ HasResponse(result))
    /\ LET f == RunFailure(result) IN
         /\ ~f.stop
         /\ attempt + 1 < max_attempts
         /\ last_error' = f.error
         /\ last_step' = f.step
         /\ last_reason' = f.reason
         /\ only_step7' = (only_step7 /\ ~result.success /\ result.failed_step = 7)
    /\ attempt' = attempt + 1
    /\ flow_id' = flow_id + 1
    /\ hwnd' = NoHwnd
    /\ window_rect' = NoRect
    /\ EnterFlow
    /\ OnlyFlow
    /\ UNCHANGED << inputVars, ret >>

\* the run failed and the loop ends, by "break" or by exhaustion
escalate_return_failure ==
    /\ pc = "returned"
    /\ ~(result.success /\ HasResponse(result))
    /\ LET f == RunFailure(result) IN
         /\ f.stop \/ attempt + 1 >= max_attempts
         /\ last_error' = f.error
         /\ last_step' = f.step
         /\ last_reason' = f.reason
         /\ only_step7' = (only_step7 /\ ~result.success /\ result.failed_step = 7)
         /\ ret' = [success |-> FALSE, response |-> EmptyText,
                    error |-> UserMessage(f.step, f.reason, f.error),
                    failed_step |-> f.step, error_reason |-> f.reason,
                    attempts |-> max_attempts]
    /\ pc' = "done"
    /\ OnlyFlow
    /\ UNCHANGED << inputVars, attempt, flow_id, calls, windowVars, nav_attempt,
                    response_attempt, response, result, trace, submitted >>

Next ==
    \/ escalate_call
    \/ step1_kill_chatgpt
    \/ step2_start_chatgpt
    \/ step3_focus_chatgpt
    \/ step4_open_sidebar
    \/ step5_click_project
    \/ step6_click_conversation
    \/ nav_retry_open_sidebar
    \/ nav_retry_click_project
    \/ step7_send_prompt
    \/ step9_wait_for_response
    \/ step10_copy_response
    \/ escalate_return_success
    \/ escalate_retry
    \/ escalate_return_failure

Spec == Init /\ [][Next]_vars

TypeOK ==
    /\ pc \in {"idle", "step1", "step2", "step3", "step4", "step5", "step6", "nav4",
               "nav5", "step7", "step9", "step10", "returned", "done"}
    /\ attempt \in 0..(max_attempts - 1)
    /\ calls \in 0..max_attempts
    /\ nav_attempt \in 0..max_nav_retries
    /\ response_attempt \in 0..max_response_retries
    /\ hwnd \in Hwnds \cup {NoHwnd}
    /\ window_rect \in Rects \cup {NoRect}

(***************************************************************************)
(* Properties                                                              *)
(***************************************************************************)

\* the run that just returned did not give escalate a usable response
RunHasFailed == pc = "returned" /\ ~(result.success /\ HasResponse(result))

\* the reason code escalate records for the run that just returned
RecordedReason ==
    IF result.success THEN "empty_response"
    ELSE _derive_error_reason(result.failed_step, result.error)

LastInvoked == trace[Len(trace)]

\* a reply as the validation is specified: at least 20 characters and, with
\* code-fence lines removed, a JSON object holding an expected field
WellFormedReply(text) ==
    /\ TextLen(text) >= 20
    /\ LET parsed == JsonLoads(JsonTextOf(text)) IN
         /\ parsed.ok
         /\ parsed.val.t = "dict"
         /\ \E i \in 1..Len(parsed.val.keys) :
               parsed.val.keys[i] \in { <<"guidance">>, <<"action_plan">>, <<"priority">> }

\* the flow returned because validation failed on all its response attempts
ValidationExhausted ==
    /\ pc = "returned"
    /\ ~result.success
    /\ trace # <<>>
    /\ LastInvoked = [step |-> 10, ok |-> TRUE]

\* C1 (as stated): another flow run is started after a failed run only when the
\* reason code is focus_failed, start_failed, sidebar_failed or focus_lost.
C1_RetryOnlyRecoverable ==
    [][(RunHasFailed /\ pc' = "step1")
          => RecordedReason \in {"focus_failed", "start_failed", "sidebar_failed", "focus_lost"}]_vars

\* C1 (amended): after a failed run escalate starts another flow run exactly
\* when the reason code is neither invalid_config nor invalid_response and
\* fewer than 4 runs have been made; otherwise it returns the failure.
C1_RetryUnlessNonRecoverable ==
    [][RunHasFailed =>
          IF RecordedReason \notin {"invalid_config", "invalid_response"} /\ calls < 4
          THEN pc' = "step1" /\ calls' = calls + 1
          ELSE pc' = "done" /\ calls' = calls /\ ~ret'.success]_vars

\* a second run is under way after the first failed with kill_failed
C1_Witness == pc = "step1" /\ calls = 2 /\ last_reason = "kill_failed"

\* C2: when every run fails at step 7, each run starts at step 1 on a fresh
\* flow (the k-th run on the k-th instance, hwnd and window_rect None), there
\* are exactly 4 runs, and escalate returns success=false, focus_lost, step 7,
\* attempts 4.
C2_AllRunsFailAtStep7 ==
    only_step7 =>
      /\ (pc = "step1" => hwnd = NoHwnd /\ window_rect = NoRect /\ flow_id = calls
                          /\ trace = <<>>)
      /\ (pc = "done" => /\ calls = 4
                         /\ flow_id = 4
                         /\ ~ret.success
                         /\ ret.error_reason = "focus_lost"
                         /\ ret.failed_step = 7
                         /\ ret.attempts = 4)

C2_Witness == pc = "done" /\ only_step7 /\ calls = 4 /\ ret.failed_step = 7

\* C3: a run that failed because validation failed on all response attempts
\* makes escalate return at once with reason invalid_response, whatever the
\* copied text is.
C3_ValidationFailureIsFinal ==
    [][ValidationExhausted => pc' = "done" /\ ret'.error_reason = "invalid_response"]_vars

\* C4: the attempts field of the returned dict is the number of
\* execute_full_flow invocations of the call.
C4_AttemptsCountsRuns == pc = "done" => ret.attempts = calls

\* C5: a template/placeholder reply is never returned as a success.
C5_TemplateNeverAccepted ==
    (pc = "returned" /\ result.success)
        => ~_is_template_response(JsonLoads(JsonTextOf(result.response)).val)

\* C6: at most max_response_retries + 1 submissions per run; the first is the
\* caller's prompt, every later one carries the clarifying prefix and is made
\* only after the last copied response failed validation; steps 1-6 are not
\* run again once step 7 has started; when the last attempt's response is
\* invalid the run ends with success=false, failed_step 10.
C6_ResponseRetries ==
    /\ Len(submitted) <= max_response_retries + 1
    /\ \A i \in 1..Len(submitted) :
          submitted[i] = IF i = 1 THEN message ELSE ClarifyingPrefix \o message
    /\ (pc = "step7" /\ Len(submitted) >= 1)
          => (response # EmptyText /\ ~WellFormedReply(response))
    /\ \A i \in 1..Len(trace) : \A j \in (i + 1)..Len(trace) :
          trace[i].step = 7 => trace[j].step >= 7
    /\ (ValidationExhausted /\ ~WellFormedReply(response))
          => (Len(submitted) = max_response_retries + 1 /\ result.failed_step = 10)
    /\ (pc \in {"step7", "step9", "step10"} /\ Len(submitted) = max_response_retries + 1)
          => pc # "step7"

\* a third submission was made and the run failed on validation
C6_Witness ==
    /\ ValidationExhausted
    /\ Len(submitted) = 3
    /\ submitted[3] = ClarifyingPrefix \o message
    /\ submitted[1] = message

\* C7: success=true only with the response step 10 copied last in this run,
\* and only if that response is well formed.
C7_SuccessIsValidated ==
    (pc = "returned" /\ result.success) =>
        /\ trace # <<>>
        /\ LastInvoked = [step |-> 10, ok |-> TRUE]
        /\ result.response = response
        /\ WellFormedReply(result.response)

C7_Witness == pc = "returned" /\ result.success /\ result.response = RespFenced

\* C8: a step is started only if every lower-numbered step has returned
\* success earlier in the same run.
C8_NoStepSkipped ==
    \A i \in 1..Len(trace) :
        \A n \in {1, 2, 3, 4, 5, 6, 7, 9, 10} :
            n < trace[i].step => \E j \in 1..(i - 1) : trace[j] = [step |-> n, ok |-> TRUE]

\* step 10 was reached after a navigation retry
C8_Witness ==
    /\ Len(trace) >= 12
    /\ LastInvoked.step = 10
    /\ \E i \in 1..Len(trace) : trace[i] = [step |-> 6, ok |-> FALSE]

\* the places of the trace where the step number goes down, to step n
Backward(n) ==
    { i \in 1..(Len(trace) - 1) : trace[i + 1].step < trace[i].step /\ trace[i + 1].step = n }

\* C9 (as stated): the started step numbers of a run never go down.
C9_NonDecreasing ==
    \A i \in 1..(Len(trace) - 1) : trace[i].step <= trace[i + 1].step

\* C9 (amended): the started step numbers go down only to step 4, right after
\* a failed step 5 or 6 of the navigation loop, and to step 7, right after
\* step 10 copied a response that failed validation; each at most twice per
\* run.  Steps 1, 2 and 3 are never started a second time.
C9_BackwardOnlyInRetryLoops ==
    /\ \A i \in 1..(Len(trace) - 1) :
          trace[i + 1].step < trace[i].step =>
              \/ /\ trace[i + 1].step = 4
                 /\ trace[i].step \in {5, 6}
                 /\ ~trace[i].ok
              \/ /\ trace[i + 1].step = 7
                 /\ trace[i] = [step |-> 10, ok |-> TRUE]
    /\ Cardinality(Backward(4)) <= 2
    /\ Cardinality(Backward(7)) <= 2
    /\ \A i \in 1..Len(trace) : \A j \in 1..Len(trace) :
          (i # j /\ trace[i].step = trace[j].step) => trace[i].step > 3

\* both loops went back twice in one run
C9_Witness == Cardinality(Backward(4)) = 2 /\ Cardinality(Backward(7)) = 2

\* a step invocation of the navigation loop: step 6, or step 4 or 5 after
\* step 6 has been tried
InNavLoop(i) ==
    \/ trace[i].step = 6
    \/ trace[i].step \in {4, 5} /\ \E j \in 1..(i - 1) : trace[j].step = 6

\* C10 (as stated): the first failing step invocation is the last invocation
\* of the run, and failed_step is its number.
C10_FirstFailureHalts ==
    \A i \in 1..Len(trace) :
        ~trace[i].ok => /\ i = Len(trace)
                        /\ pc \in {"returned", "done"}
                        /\ result.failed_step = trace[i].step

\* C10 (amended): a failing invocation of step 1, 2, 3, 7, 9 or 10, or of step
\* 4 or 5 before step 6 was first tried, is the last invocation of the run and
\* failed_step is its number.  A failing invocation inside the navigation
\* loop is followed by step 4 again, except the one that ends the third pass
\* of the loop: that one is the last invocation and failed_step is 6.
C10_FailureHaltsOutsideNavLoop ==
    /\ \A i \in 1..Len(trace) :
          (~trace[i].ok /\ ~InNavLoop(i)) =>
              /\ i = Len(trace)
              /\ pc \in {"returned", "done"}
              /\ result.failed_step = trace[i].step
    /\ \A i \in 1..Len(trace) :
          (~trace[i].ok /\ InNavLoop(i)) =>
              /\ i < Len(trace) => trace[i + 1].step = 4
              /\ i = Len(trace) =>
                    \/ pc = "nav4"
                    \/ /\ pc \in {"returned", "done"}
                       /\ result.failed_step = 6
                       /\ Cardinality({j \in 1..Len(trace) : ~trace[j].ok /\ InNavLoop(j)}) = 3
    /\ Cardinality({j \in 1..Len(trace) : ~trace[j].ok /\ InNavLoop(j)}) <= 3

\* the run halted at step 9 after a navigation retry had recovered
C10_Witness ==
    /\ pc = "returned"
    /\ result.failed_step = 9
    /\ LastInvoked = [step |-> 9, ok |-> FALSE]
    /\ \E i \in 1..Len(trace) : trace[i] = [step |-> 6, ok |-> FALSE]


(***************************************************************************)
(* _safe_click over _ensure_foreground, one action per primitive window    *)
(* operation, with an adversary (src/testing/antagonist.py) that may act    *)
(* between any two of them.                                                *)
(***************************************************************************)
ensure_foreground_attempts == 3

\* how many _safe_click calls a behaviour makes
MaxClickCalls == 2

InitClick ==
    /\ click_pc = "idle"
    /\ fg_attempt = 0
    /\ foreground \in {"chatgpt", "other"}
    /\ iconic = FALSE
    /\ click_ret = "none"
    /\ click_calls = 0
    /\ clicks = <<>>
    /\ click_log = <<>>
    /\ Parked({"click"})

\* the history after a _safe_click call that ended: what _ensure_foreground
\* returned, whether click() was called, whether it raised, what came back
SafeClickLogged(in_front, clicked, raised, returned) ==
    Append(click_log, [foreground |-> in_front, clicked |-> clicked, raised |-> raised,
                       ret |-> returned])

\* _safe_click with the exception of click() passed on to the caller
ClickResult_uncaught(raised) == IF raised THEN "raised" ELSE "True"

\* try: click(coords=(x, y)); return True; except Exception: return False
ClickResult(raised) == IF raised THEN "False" ELSE "True"

\* _safe_click is called: _ensure_foreground starts its first attempt
safe_click_call ==
    /\ click_pc = "idle"
    /\ click_calls < MaxClickCalls
    /\ click_calls' = click_calls + 1
    /\ fg_attempt' = 1
    /\ click_pc' = "check"
    /\ click_ret' = "none"
    /\ UNCHANGED << foreground, iconic, clicks, click_log >>
    /\ OnlyClick

\* the end of one attempt of _ensure_foreground: sleep and loop, or give up
\* and let _safe_click return False without a click
NextForegroundAttempt ==
    IF fg_attempt < ensure_foreground_attempts
    THEN /\ fg_attempt' = fg_attempt + 1
         /\ click_pc' = "check"
         /\ click_ret' = click_ret
    ELSE /\ fg_attempt' = fg_attempt
         /\ click_pc' = "idle"
         /\ click_ret' = "False"

\* fg_hwnd = GetForegroundWindow(); if fg_hwnd == self.hwnd: return True
ef_check_foreground ==
    /\ click_pc = "check"
    /\ click_pc' = IF foreground = "chatgpt" THEN "click" ELSE "restore"
    /\ UNCHANGED << fg_attempt, foreground, iconic, click_ret, click_calls, clicks, click_log >>
    /\ OnlyClick

\* if IsIconic(self.hwnd): ShowWindow(self.hwnd, SW_RESTORE)
ef_restore ==
    /\ click_pc = "restore"
    /\ iconic' = FALSE
    /\ click_pc' = "set"
    /\ UNCHANGED << fg_attempt, foreground, click_ret, click_calls, clicks, click_log >>
    /\ OnlyClick

\* SetForegroundWindow (with or without AttachThreadInput): the OS grants it,
\* silently ignores it, or the call and its fallback both raise
ef_set_foreground ==
    /\ click_pc = "set"
    /\ \E outcome \in {"granted", "ignored", "raised"} :
         CASE outcome = "granted" ->
                /\ foreground' = IF iconic THEN foreground ELSE "chatgpt"
                /\ click_pc' = "verify"
                /\ UNCHANGED << fg_attempt, click_ret >>
           [] outcome = "ignored" ->
                /\ click_pc' = "verify"
                /\ UNCHANGED << foreground, fg_attempt, click_ret >>
           [] outcome = "raised" ->
                /\ NextForegroundAttempt
                /\ UNCHANGED foreground
    /\ UNCHANGED << iconic, click_calls, clicks >>
    /\ click_log' = IF click_pc' = "idle" THEN SafeClickLogged(FALSE, FALSE, FALSE, "False")
                    ELSE click_log
    /\ OnlyClick

\* if GetForegroundWindow() == self.hwnd: return True
ef_verify ==
    /\ click_pc = "verify"
    /\ click_pc' = IF foreground = "chatgpt" THEN "click" ELSE "show"
    /\ UNCHANGED << fg_attempt, foreground, iconic, click_ret, click_calls, clicks, click_log >>
    /\ OnlyClick

\* ShowWindow(self.hwnd, SW_SHOW), which may or may not activate the window
ef_show_window ==
    /\ click_pc = "show"
    /\ \E activated \in BOOLEAN :
         foreground' = IF activated /\ ~iconic THEN "chatgpt" ELSE foreground
    /\ click_pc' = "verify_show"
    /\ UNCHANGED << fg_attempt, iconic, click_ret, click_calls, clicks, click_log >>
    /\ OnlyClick

\* if GetForegroundWindow() == self.hwnd: return True; else the next attempt
ef_verify_show ==
    /\ click_pc = "verify_show"
    /\ IF foreground = "chatgpt"
       THEN click_pc' = "click" /\ UNCHANGED << fg_attempt, click_ret >>
       ELSE NextForegroundAttempt
    /\ UNCHANGED << foreground, iconic, click_calls, clicks >>
    /\ click_log' = IF click_pc' = "idle" THEN SafeClickLogged(FALSE, FALSE, FALSE, "False")
                    ELSE click_log
    /\ OnlyClick

\* _ensure_foreground returned True: click(coords=(x, y)), which lands on
\* whatever the screen shows at that moment, or raises
safe_click_click ==
    /\ click_pc = "click"
    /\ \E raised \in BOOLEAN :
         /\ click_ret' = ClickResult(raised)
         /\ clicks' = IF raised THEN clicks
                      ELSE Append(clicks, foreground = "chatgpt" /\ ~iconic)
         /\ click_log' = SafeClickLogged(TRUE, TRUE, raised, ClickResult(raised))
    /\ click_pc' = "idle"
    /\ UNCHANGED << fg_attempt, foreground, iconic, click_calls >>
    /\ OnlyClick

\* antagonist: focus_away_from_chatgpt brings another window to the front
focus_away_from_chatgpt ==
    /\ click_pc \notin {"idle", "parked"}
    /\ foreground = "chatgpt"
    /\ foreground' = "other"
    /\ UNCHANGED << click_pc, fg_attempt, iconic, click_ret, click_calls, clicks, click_log >>
    /\ OnlyClick

\* antagonist: minimize_chatgpt; a minimized window is not the foreground window
minimize_chatgpt ==
    /\ click_pc \notin {"idle", "parked"}
    /\ ~iconic
    /\ iconic' = TRUE
    /\ foreground' = "other"
    /\ UNCHANGED << click_pc, fg_attempt, click_ret, click_calls, clicks, click_log >>
    /\ OnlyClick

NextClick ==
    \/ safe_click_call
    \/ ef_check_foreground
    \/ ef_restore
    \/ ef_set_foreground
    \/ ef_verify
    \/ ef_show_window
    \/ ef_verify_show
    \/ safe_click_click
    \/ focus_away_from_chatgpt
    \/ minimize_chatgpt

SpecClick == InitClick /\ [][NextClick]_vars

\* C11: every click issued through _safe_click lands while the tracked window
\* is the foreground window, and a _safe_click that reports failure has
\* issued no click.
C11_ClicksLandOnForeground ==
    /\ \A i \in 1..Len(clicks) : clicks[i]
    /\ (click_pc = "idle" /\ click_ret = "False") => Len(clicks) < click_calls

(***************************************************************************)
(* _ensure_window_viable at the head of steps 4, 5, 6, 7, 9 and 10, one     *)
(* action per numbered part of it, followed by the step's coordinate-based *)
(* action.  rect_step remembers the step in which self.window_rect was     *)
(* last read from the OS.                                                  *)
(***************************************************************************)
MovedRect == <<200, 100, 1480, 900>>
ScreenRects == Rects \cup {MovedRect}

first_viable_step == 4
last_step_no == 10

\* the steps that start with _ensure_window_viable, in the order of the flow
NextViableStep(n) == IF n = 7 THEN 9 ELSE n + 1

\* steps 2 and 3 have run: step 3 read the rect when it verified the focus
InitRect ==
    /\ viable_pc = "between"
    /\ step_no = first_viable_step - 1
    /\ os_rect \in ScreenRects
    /\ tracked_rect = os_rect
    /\ rect_step = first_viable_step - 1
    /\ coord_uses = {}
    /\ Parked({"rect"})

\* self.window_rect = win32gui.GetWindowRect(self.hwnd)
ReadRect ==
    /\ tracked_rect' = os_rect
    /\ rect_step' = step_no

viable_step_begin ==
    /\ viable_pc = "between"
    /\ step_no < last_step_no
    /\ step_no' = NextViableStep(step_no)
    /\ viable_pc' = "hwnd"
    /\ UNCHANGED << os_rect, tracked_rect, rect_step, coord_uses >>
    /\ OnlyRect

\* 1. hwnd validity, with _refresh_hwnd when it is invalid
viable_check_hwnd ==
    /\ viable_pc = "hwnd"
    /\ \E valid, found \in BOOLEAN :
         IF valid
         THEN viable_pc' = "iconic" /\ UNCHANGED << tracked_rect, rect_step >>
         ELSE IF found
              THEN viable_pc' = "iconic" /\ ReadRect
              ELSE viable_pc' = "failed" /\ UNCHANGED << tracked_rect, rect_step >>
    /\ UNCHANGED << step_no, os_rect, coord_uses >>
    /\ OnlyRect

\* 2. restore from minimized; a ShowWindow that raises fails the check
viable_restore ==
    /\ viable_pc = "iconic"
    /\ \E minimized, raised \in BOOLEAN :
         viable_pc' = IF minimized /\ raised THEN "failed" ELSE "visible"
    /\ UNCHANGED << step_no, os_rect, tracked_rect, rect_step, coord_uses >>
    /\ OnlyRect

\* 3. ensure visible; a ShowWindow that raises fails the check
viable_show ==
    /\ viable_pc = "visible"
    /\ \E hidden, raised \in BOOLEAN :
         viable_pc' = IF hidden /\ raised THEN "failed" ELSE "rect"
    /\ UNCHANGED << step_no, os_rect, tracked_rect, rect_step, coord_uses >>
    /\ OnlyRect

\* 4. update the window rect inside try/except: a GetWindowRect that raises
\* is logged and the check goes on with the rect it had
viable_update_rect ==
    /\ viable_pc = "rect"
    /\ \E raised \in BOOLEAN :
         IF raised
         THEN UNCHANGED << tracked_rect, rect_step >>
         ELSE ReadRect
    /\ viable_pc' = "foreground"
    /\ UNCHANGED << step_no, os_rect, coord_uses >>
    /\ OnlyRect

\* 5. _ensure_foreground: already in front, restored (which reads the rect
\* again), or not restorable
viable_ensure_foreground ==
    /\ viable_pc = "foreground"
    /\ \E outcome \in {"already", "restored", "lost"} :
         CASE outcome = "already" ->
                viable_pc' = "act" /\ UNCHANGED << tracked_rect, rect_step >>
           [] outcome = "restored" ->
                viable_pc' = "act" /\ ReadRect
           [] outcome = "lost" ->
                viable_pc' = "failed" /\ UNCHANGED << tracked_rect, rect_step >>
    /\ UNCHANGED << step_no, os_rect, coord_uses >>
    /\ OnlyRect

\* rect = self.window_rect, then a click, a scroll position or a capture
\* region computed from it
coordinate_action ==
    /\ viable_pc = "act"
    /\ coord_uses' = coord_uses \cup {[step |-> step_no, rect_step |-> rect_step,
                                       current |-> tracked_rect = os_rect]}
    /\ viable_pc' = "between"
    /\ UNCHANGED << step_no, os_rect, tracked_rect, rect_step >>
    /\ OnlyRect

\* antagonist: move_window puts the window somewhere else
move_window ==
    /\ viable_pc \notin {"failed", "parked"}
    /\ \E r \in ScreenRects \ {os_rect} : os_rect' = r
    /\ UNCHANGED << viable_pc, step_no, tracked_rect, rect_step, coord_uses >>
    /\ OnlyRect

NextRect ==
    \/ viable_step_begin
    \/ viable_check_hwnd
    \/ viable_restore
    \/ viable_show
    \/ viable_update_rect
    \/ viable_ensure_foreground
    \/ coordinate_action
    \/ move_window

SpecRect == InitRect /\ [][NextRect]_vars

\* C12: every coordinate-based action of a step uses a window rect that was
\* read from the OS during that same step, never one left over from an
\* earlier step or from a failed rect read.
C12_RectReadInSameStep ==
    \A u \in coord_uses : u.rect_step = u.step

(***************************************************************************)
(* step6_click_conversation: the scan attempts, the Ctrl+K fallback and    *)
(* the title check after each.                                             *)
(***************************************************************************)
\* str.split(): the words of a text
Words(text) == { text[i] : i \in { j \in 1..Len(text) : text[j] \notin Whitespace } }

fuzzy_threshold_tenths == 6

\* _fuzzy_match(target, text, threshold=0.6)
_fuzzy_match(target, text) ==
    LET target_words == Words(Lower(target))
        text_words == Words(Lower(text))
        overlap == Cardinality(target_words \cap text_words)
    IN  IF target_words = {}
        THEN FALSE
        ELSE \/ overlap * 10 >= fuzzy_threshold_tenths * Cardinality(target_words)
             \/ Contains(Lower(text), Lower(target))

\* the window titles GetWindowText may report
Titles ==
    { <<"ChatGPT">>,
      <<"o3", " ", "test">>,
      <<"ChatGPT", " ", "-", " ", "Focus", " ", "notes">>,
      <<"focus", " ", "help">>,
      <<"o3", " ", "test", " ", "notes">>,
      <<"New", " ", "chat">> }

step6_attempts == 3

InitStep6 ==
    /\ s6_pc = "viable"
    /\ conversation_name \in { q.conversation : q \in Requests }
    /\ s6_attempt = 0
    /\ title \in { <<"ChatGPT">>, <<"New", " ", "chat">> }
    /\ s6_ret = "none"
    /\ s6_matched = "none"
    /\ Parked({"step6"})

\* return from the step; matched is what the title check found
Step6Return(value, matched) ==
    /\ s6_pc' = "done"
    /\ s6_ret' = value
    /\ s6_matched' = matched

\* if not self._ensure_window_viable("step6"): return False
step6_viable ==
    /\ s6_pc = "viable"
    /\ \E viable \in BOOLEAN :
         IF viable
         THEN s6_pc' = "scan" /\ UNCHANGED << s6_ret, s6_matched >>
         ELSE Step6Return("False", "none")
    /\ UNCHANGED << conversation_name, s6_attempt, title >>
    /\ OnlyStep6

\* one iteration of the scan loop up to the click: the foreground check,
\* then _find_and_click_project_item; the click opens whatever it hit
step6_scan ==
    /\ s6_pc = "scan"
    /\ \E foreground_ok, clicked \in BOOLEAN :
         IF foreground_ok /\ clicked
         THEN /\ \E t \in Titles : title' = t
              /\ s6_pc' = "title"
              /\ s6_attempt' = s6_attempt
         ELSE /\ title' = title
              /\ s6_attempt' = s6_attempt + 1
              /\ s6_pc' = IF s6_attempt + 1 < step6_attempts THEN "scan" ELSE "ctrl_k"
    /\ UNCHANGED << conversation_name, s6_ret, s6_matched >>
    /\ OnlyStep6

\* title = GetWindowText(self.hwnd); both branches of the fuzzy check return True
step6_title_check ==
    /\ s6_pc = "title"
    /\ Step6Return("True", IF _fuzzy_match(conversation_name, title) THEN "yes" ELSE "no")
    /\ UNCHANGED << conversation_name, s6_attempt, title >>
    /\ OnlyStep6

\* the fallback: if self._search_and_open_conversation(conversation_name)
step6_ctrl_k_search ==
    /\ s6_pc = "ctrl_k"
    /\ \E opened \in BOOLEAN :
         IF opened
         THEN /\ \E t \in Titles : title' = t
              /\ s6_pc' = "ctrl_k_title"
              /\ UNCHANGED << s6_ret, s6_matched >>
         ELSE /\ title' = title
              /\ Step6Return("False", "none")
    /\ UNCHANGED << conversation_name, s6_attempt >>
    /\ OnlyStep6

\* the title check after the fallback; both branches return True
step6_ctrl_k_title_check ==
    /\ s6_pc = "ctrl_k_title"
    /\ Step6Return("True", IF _fuzzy_match(conversation_name, title) THEN "yes" ELSE "no")
    /\ UNCHANGED << conversation_name, s6_attempt, title >>
    /\ OnlyStep6

NextStep6 ==
    \/ step6_viable
    \/ step6_scan
    \/ step6_title_check
    \/ step6_ctrl_k_search
    \/ step6_ctrl_k_title_check

SpecStep6 == InitStep6 /\ [][NextStep6]_vars

\* C13: step6_click_conversation returns success only if the title read
\* after the click (or after the quick search) matched the conversation
\* name by the word-overlap check.
C13_SuccessOnlyWithTitleMatch ==
    s6_ret = "True" => s6_matched = "yes"

(***************************************************************************)
(* step1_kill_chatgpt: the terminate pass over the process list, then the  *)
(* poll for the processes to be gone.                                      *)
(***************************************************************************)
Pids == {1, 2}
ProcessNames == {"ChatGPT.exe", "chatgpt.exe", "notepad.exe"}

\* how many times the poll runs before the timeout of 5 seconds is over
MaxKillPolls == 2

\* proc.info['name'].lower() == "chatgpt.exe"
IsChatGPT(p) == LowerAtom(procs[p].name) = "chatgpt.exe"

StillRunning == \E p \in Pids : procs[p].running /\ IsChatGPT(p)

InitKill ==
    /\ kill_pc = "terminate"
    /\ procs \in [Pids -> [name : ProcessNames, running : {TRUE}, denied : BOOLEAN]]
    /\ kill_todo = <<1, 2>>
    /\ killed = FALSE
    /\ terminating = {}
    /\ kill_polls = 0
    /\ kill_ret = "none"
    /\ Parked({"kill"})

\* one iteration of the first loop: terminate a process named chatgpt.exe;
\* AccessDenied and NoSuchProcess are passed over and leave killed as it was
kill_terminate ==
    /\ kill_pc = "terminate"
    /\ kill_todo # <<>>
    /\ LET p == Head(kill_todo)
       IN  IF IsChatGPT(p) /\ procs[p].running /\ ~procs[p].denied
           THEN /\ terminating' = terminating \cup {p}
                /\ killed' = TRUE
           ELSE UNCHANGED << terminating, killed >>
    /\ kill_todo' = Tail(kill_todo)
    /\ UNCHANGED << kill_pc, procs, kill_polls, kill_ret >>
    /\ OnlyKill

\* if not killed: return True ("ChatGPT was not running")
kill_after_terminate ==
    /\ kill_pc = "terminate"
    /\ kill_todo = <<>>
    /\ IF ~killed
       THEN kill_pc' = "done" /\ kill_ret' = "True"
       ELSE kill_pc' = "poll" /\ kill_ret' = kill_ret
    /\ UNCHANGED << procs, kill_todo, killed, terminating, kill_polls >>
    /\ OnlyKill

\* one iteration of the poll: no chatgpt.exe left -> True; the timeout -> False
kill_poll ==
    /\ kill_pc = "poll"
    /\ IF ~StillRunning
       THEN kill_pc' = "done" /\ kill_ret' = "True" /\ kill_polls' = kill_polls
       ELSE IF kill_polls + 1 < MaxKillPolls
            THEN kill_pc' = "poll" /\ kill_ret' = kill_ret /\ kill_polls' = kill_polls + 1
            ELSE kill_pc' = "done" /\ kill_ret' = "False" /\ kill_polls' = kill_polls + 1
    /\ UNCHANGED << procs, kill_todo, killed, terminating >>
    /\ OnlyKill

\* OS: a process that was told to terminate exits
process_exit ==
    /\ kill_pc \in {"terminate", "poll"}
    /\ \E p \in terminating :
         /\ procs[p].running
         /\ procs' = [procs EXCEPT ![p].running = FALSE]
    /\ UNCHANGED << kill_pc, kill_todo, killed, terminating, kill_polls, kill_ret >>
    /\ OnlyKill

NextKill ==
    \/ kill_terminate
    \/ kill_after_terminate
    \/ kill_poll
    \/ process_exit

SpecKill == InitKill /\ [][NextKill]_vars

\* C14: step1_kill_chatgpt returns success only if no process named
\* chatgpt.exe remains; it does not return success while a matching process
\* that it failed to terminate is still running.
C14_SuccessMeansNoneRemains ==
    kill_ret = "True" => ~StillRunning

(***************************************************************************)
(* step9_wait_for_response: the poll loop over the button-state            *)
(* classifier.  idle_run and lost_run are the true lengths of the trailing *)
(* runs of idle readings and of failed foreground checks.                  *)
(***************************************************************************)
\* the capture raised (or there is no window rect): no pixel count
CaptureFailed == -1

\* dark pixel counts the 30 x 30 capture of the button may give
DarkPixelSamples == {20, 60, 61, 399, 400}

generating_above == 60
ready_from == 400

\* _get_input_button_state with the arrow recognised above ready_from only
_get_input_button_state_above(dark_pixels) ==
    IF dark_pixels = CaptureFailed THEN "unknown"
    ELSE IF generating_above < dark_pixels /\ dark_pixels < ready_from THEN "generating"
    ELSE IF dark_pixels > ready_from THEN "ready"
    ELSE "idle"

\* _get_input_button_state, from the number of dark pixels
_get_input_button_state(dark_pixels) ==
    IF dark_pixels = CaptureFailed THEN "unknown"
    ELSE IF generating_above < dark_pixels /\ dark_pixels < ready_from THEN "generating"
    ELSE IF dark_pixels >= ready_from THEN "ready"
    ELSE "idle"

max_foreground_failures == 20
idle_after_generation == 3
idle_without_generation == 5

\* how many iterations of the poll loop fit into the timeout
MaxWaitPolls == 22

InitWait ==
    /\ wait_pc = "viable"
    /\ generation_started = FALSE
    /\ consecutive_idle = 0
    /\ foreground_failures = 0
    /\ wait_polls = 0
    /\ wait_ret = "none"
    /\ wait_phase = "START"
    /\ idle_run = 0
    /\ lost_run = 0
    /\ Parked({"wait"})

WaitReturn(value, phase) ==
    /\ wait_pc' = "done"
    /\ wait_ret' = value
    /\ wait_phase' = phase

WaitContinue ==
    /\ wait_pc' = "poll"
    /\ wait_ret' = wait_ret
    /\ wait_phase' = wait_phase

\* if not self._ensure_window_viable("step9"): return False
wait_viable ==
    /\ wait_pc = "viable"
    /\ \E viable \in BOOLEAN :
         IF viable THEN WaitContinue ELSE WaitReturn("False", "FAIL:not_viable")
    /\ UNCHANGED << generation_started, consecutive_idle, foreground_failures, wait_polls,
                    idle_run, lost_run >>
    /\ OnlyWait

\* an iteration whose _ensure_foreground fails
wait_poll_lost_foreground ==
    /\ wait_pc = "poll"
    /\ wait_polls < MaxWaitPolls
    /\ wait_polls' = wait_polls + 1
    /\ foreground_failures' = foreground_failures + 1
    /\ IF foreground_failures + 1 >= max_foreground_failures
       THEN WaitReturn("False", "FAIL:foreground_lost")
       ELSE WaitContinue
    /\ lost_run' = lost_run + 1
    /\ idle_run' = 0
    /\ UNCHANGED << generation_started, consecutive_idle >>
    /\ OnlyWait

\* an iteration whose _ensure_foreground succeeds: read the button state
wait_poll_button_state ==
    /\ wait_pc = "poll"
    /\ wait_polls < MaxWaitPolls
    /\ wait_polls' = wait_polls + 1
    /\ lost_run' = 0
    /\ \E dark_pixels \in DarkPixelSamples \cup {CaptureFailed} :
         LET state == _get_input_button_state(dark_pixels)
         IN  /\ idle_run' = IF state = "idle" THEN idle_run + 1 ELSE 0
             /\ CASE state = "generating" ->
                       /\ generation_started' = TRUE
                       /\ consecutive_idle' = 0
                       /\ foreground_failures' = 0
                       /\ WaitContinue
                  [] state = "ready" ->
                       /\ foreground_failures' = 0
                       /\ UNCHANGED << generation_started, consecutive_idle >>
                       /\ WaitContinue
                  [] state = "idle" ->
                       /\ consecutive_idle' = consecutive_idle + 1
                       /\ foreground_failures' = 0
                       /\ generation_started' = generation_started
                       /\ IF \/ generation_started
                                /\ consecutive_idle + 1 >= idle_after_generation
                             \/ ~generation_started
                                /\ consecutive_idle + 1 >= idle_without_generation
                          THEN WaitReturn("True", "OK")
                          ELSE WaitContinue
                  [] OTHER ->
                       /\ UNCHANGED << generation_started, consecutive_idle,
                                       foreground_failures >>
                       /\ WaitContinue
    /\ OnlyWait

\* the while condition fails: the timeout is over
wait_timeout ==
    /\ wait_pc = "poll"
    /\ wait_polls = MaxWaitPolls
    /\ WaitReturn("False", "FAIL:timeout")
    /\ UNCHANGED << generation_started, consecutive_idle, foreground_failures, wait_polls,
                    idle_run, lost_run >>
    /\ OnlyWait

NextWait ==
    \/ wait_viable
    \/ wait_poll_lost_foreground
    \/ wait_poll_button_state
    \/ wait_timeout

SpecWait == InitWait /\ [][NextWait]_vars

\* C15: step9_wait_for_response returns success only when the N most recent
\* readings were all idle, with no other reading and no failed foreground
\* check between them; N is 3 after a generating reading and 5 without one.
C15_SuccessAfterConsecutiveIdle ==
    wait_phase = "OK" =>
        idle_run >= (IF generation_started THEN idle_after_generation
                                           ELSE idle_without_generation)

\* C16: step9_wait_for_response aborts for foreground loss only after 20
\* consecutive failed foreground checks; an iteration whose foreground check
\* succeeded resets the count whatever the button state.
C16_AbortAfterConsecutiveLosses ==
    wait_phase = "FAIL:foreground_lost" => lost_run >= max_foreground_failures

(***************************************************************************)
(* _retry_with_recovery: one action per call the loop body makes.  Each    *)
(* call returns a truthy or a falsy value, or raises.                      *)
(***************************************************************************)
Outcomes == {"truthy", "falsy", "raises"}

\* the values of the parameter max_attempts (3 is its default)
RetryMaxAttempts == 1..4

InitRetry ==
    /\ retry_pc = "idle"
    /\ retry_max \in RetryMaxAttempts
    /\ retry_attempt = 0
    /\ retry_ret = "none"
    /\ op_calls = 0
    /\ op_raises = 0
    /\ retry_log = <<>>
    /\ Parked({"retry"})

\* _retry_with_recovery(operation, operation_name, max_attempts)
retry_call ==
    /\ retry_pc = "idle"
    /\ retry_attempt' = 1
    /\ retry_pc' = "ready"
    /\ UNCHANGED << retry_max, retry_ret, op_calls, op_raises, retry_log >>
    /\ OnlyRetry

\* the end of an iteration that did not return: the next one, or the
\* return False after the loop
NextRetryAttempt ==
    IF retry_attempt < retry_max
    THEN /\ retry_attempt' = retry_attempt + 1
         /\ retry_pc' = "ready"
         /\ retry_ret' = retry_ret
    ELSE /\ retry_attempt' = retry_attempt
         /\ retry_pc' = "done"
         /\ retry_ret' = "False"

\* the history after a call made in the current attempt
Logged(call, ok) ==
    Append(retry_log, [attempt |-> retry_attempt, call |-> call, ok |-> ok])

\* an exception raised inside the loop body: except Exception logs and sleeps
RetryRaised_uncaught ==
    /\ retry_attempt' = retry_attempt
    /\ retry_pc' = "raised"
    /\ retry_ret' = retry_ret
RetryRaised ==
    NextRetryAttempt

\* if not self._is_window_ready(), which catches what its checks raise
retry_is_window_ready ==
    /\ retry_pc = "ready"
    /\ \E ready \in BOOLEAN :
         retry_pc' = IF ready THEN "foreground" ELSE "refresh"
    /\ UNCHANGED << retry_max, retry_attempt, retry_ret, op_calls, op_raises, retry_log >>
    /\ OnlyRetry

\* if not self.hwnd or not self._is_window_ready(): if not self._refresh_hwnd(): continue
retry_refresh_hwnd ==
    /\ retry_pc = "refresh"
    /\ \E ready_now \in BOOLEAN, outcome \in Outcomes :
         /\ retry_log' = IF ready_now THEN retry_log
                         ELSE Logged("refresh", outcome = "truthy")
         /\ IF ready_now \/ outcome = "truthy"
            THEN retry_pc' = "restore" /\ UNCHANGED << retry_attempt, retry_ret >>
            ELSE IF outcome = "falsy"
                 THEN NextRetryAttempt
                 ELSE RetryRaised
    /\ UNCHANGED << retry_max, op_calls, op_raises >>
    /\ OnlyRetry

\* if IsIconic(self.hwnd): ShowWindow(self.hwnd, SW_RESTORE)
retry_restore ==
    /\ retry_pc = "restore"
    /\ \E raised \in BOOLEAN :
         IF raised
         THEN RetryRaised
         ELSE retry_pc' = "foreground" /\ UNCHANGED << retry_attempt, retry_ret >>
    /\ UNCHANGED << retry_max, op_calls, op_raises, retry_log >>
    /\ OnlyRetry

\* the focus recovery with its result ignored
retry_ensure_foreground_ignored ==
    /\ retry_pc = "foreground"
    /\ \E outcome \in Outcomes :
         /\ retry_log' = Logged("foreground", outcome = "truthy")
         /\ CASE outcome = "truthy" ->
                   retry_pc' = "operation" /\ UNCHANGED << retry_attempt, retry_ret >>
              [] outcome = "falsy" ->
                   retry_pc' = "operation" /\ UNCHANGED << retry_attempt, retry_ret >>
              [] outcome = "raises" -> RetryRaised
    /\ UNCHANGED << retry_max, op_calls, op_raises >>
    /\ OnlyRetry

\* if not self._ensure_foreground(): continue
retry_ensure_foreground ==
    /\ retry_pc = "foreground"
    /\ \E outcome \in Outcomes :
         /\ retry_log' = Logged("foreground", outcome = "truthy")
         /\ CASE outcome = "truthy" ->
                   retry_pc' = "operation" /\ UNCHANGED << retry_attempt, retry_ret >>
              [] outcome = "falsy" -> NextRetryAttempt
              [] outcome = "raises" -> RetryRaised
    /\ UNCHANGED << retry_max, op_calls, op_raises >>
    /\ OnlyRetry

\* result = operation(); if result: return True
retry_operation ==
    /\ retry_pc = "operation"
    /\ op_calls' = op_calls + 1
    /\ \E outcome \in Outcomes :
         /\ retry_log' = Logged("operation", outcome = "truthy")
         /\ CASE outcome = "truthy" ->
                   /\ retry_pc' = "done"
                   /\ retry_ret' = "True"
                   /\ UNCHANGED << retry_attempt, op_raises >>
              [] outcome = "falsy" ->
                   /\ NextRetryAttempt
                   /\ UNCHANGED op_raises
              [] outcome = "raises" ->
                   /\ RetryRaised
                   /\ op_raises' = op_raises + 1
    /\ UNCHANGED retry_max
    /\ OnlyRetry

NextRetry ==
    \/ retry_call
    \/ retry_is_window_ready
    \/ retry_refresh_hwnd
    \/ retry_restore
    \/ retry_ensure_foreground
    \/ retry_operation

SpecRetry == InitRetry /\ [][NextRetry]_vars

\* C17: _retry_with_recovery invokes the operation at most max_attempts
\* times, no exception of the operation, of the readiness recovery or of the
\* focus recovery leaves it, and once the attempts are used up without a
\* truthy result it has returned False.
C17_BoundedAndNeverRaises ==
    /\ op_calls <= retry_max
    /\ retry_pc # "raised"
    /\ retry_ret = "True" => retry_pc = "done" /\ op_calls > op_raises
    /\ (retry_pc = "done" /\ retry_ret # "True") =>
           retry_ret = "False" /\ retry_attempt = retry_max

\* the operation raised on every one of three attempts and False came back
C17_Witness ==
    /\ retry_pc = "done"
    /\ retry_ret = "False"
    /\ retry_max = 3
    /\ op_raises = retry_max

(***************************************************************************)
(* execute_full_flow inside "with input_blocked():", with step 5 taken     *)
(* apart into the calls it makes.  A call returns a truthy or a falsy      *)
(* value, or raises; where the source has no try around it the exception   *)
(* leaves the step, the flow and escalate.                                 *)
(***************************************************************************)
step5_attempts == 3

InitGuard ==
    /\ guard_pc = "enter"
    /\ blocked = FALSE
    /\ _input_blocked = FALSE
    /\ unblock_requests = 0
    /\ project_attempt = 0
    /\ leaving = "none"
    /\ raised_in = "none"
    /\ Parked({"guard"})

\* a return statement inside the with block: the context manager exits first
GuardReturn(kind) ==
    /\ guard_pc' = "exit"
    /\ leaving' = kind
    /\ raised_in' = raised_in

\* an exception no try of the step catches: it unwinds to the with block
GuardRaise(primitive) ==
    /\ guard_pc' = "exit"
    /\ leaving' = "exception"
    /\ raised_in' = primitive

GuardGoto(place) ==
    /\ guard_pc' = place
    /\ UNCHANGED << leaving, raised_in >>

\* input_blocked: blocked = block_input(True); BlockInput needs elevation,
\* and block_input catches what it raises and returns False
input_blocked_enter ==
    /\ guard_pc = "enter"
    /\ \E elevated \in BOOLEAN :
         /\ blocked' = elevated
         /\ _input_blocked' = elevated
    /\ GuardGoto("step1_4")
    /\ UNCHANGED << unblock_requests, project_attempt >>
    /\ OnlyGuard

\* steps 1 to 4: each returns a boolean; step 4 starts with
\* _ensure_window_viable, whose _refresh_hwnd reads the rect outside a try
guard_steps_before ==
    /\ guard_pc = "step1_4"
    /\ \E outcome \in Outcomes :
         CASE outcome = "truthy" -> GuardGoto("s5_viable")
           [] outcome = "falsy" -> GuardReturn("failure")
           [] outcome = "raises" -> GuardRaise("GetWindowRect")
    /\ UNCHANGED << blocked, _input_blocked, unblock_requests, project_attempt >>
    /\ OnlyGuard

\* step 5: if not self._ensure_window_viable("step5"): return False
guard_step5_viable ==
    /\ guard_pc = "s5_viable"
    /\ \E outcome \in Outcomes :
         CASE outcome = "truthy" -> GuardGoto("s5_foreground")
           [] outcome = "falsy" -> GuardReturn("failure")
           [] outcome = "raises" -> GuardRaise("GetWindowRect")
    /\ project_attempt' = 0
    /\ UNCHANGED << blocked, _input_blocked, unblock_requests >>
    /\ OnlyGuard

\* the end of an iteration of step 5's loop that did not return
NextProjectAttempt ==
    IF project_attempt + 1 < step5_attempts
    THEN /\ project_attempt' = project_attempt + 1
         /\ GuardGoto("s5_foreground")
    ELSE /\ project_attempt' = project_attempt
         /\ GuardReturn("failure")

\* step 5: if not self._ensure_foreground(): continue
guard_step5_foreground ==
    /\ guard_pc = "s5_foreground"
    /\ \E ok \in BOOLEAN :
         IF ok
         THEN GuardGoto("s5_find") /\ UNCHANGED project_attempt
         ELSE NextProjectAttempt
    /\ UNCHANGED << blocked, _input_blocked, unblock_requests >>
    /\ OnlyGuard

\* step 5: result = self._find_and_click_sidebar_item(...), which calls
\* get_ocr() before its try (the scan itself is inside try/except)
guard_step5_find ==
    /\ guard_pc = "s5_find"
    /\ \E outcome \in Outcomes :
         CASE outcome = "truthy" -> GuardGoto("s5_title") /\ UNCHANGED project_attempt
           [] outcome = "falsy" -> NextProjectAttempt
           [] outcome = "raises" -> GuardRaise("get_ocr") /\ UNCHANGED project_attempt
    /\ UNCHANGED << blocked, _input_blocked, unblock_requests >>
    /\ OnlyGuard

\* step 5: title = win32gui.GetWindowText(self.hwnd), outside any try
guard_step5_title ==
    /\ guard_pc = "s5_title"
    /\ \E outcome \in Outcomes :
         CASE outcome = "truthy" -> GuardGoto("step6_10")
           [] outcome = "falsy" -> GuardGoto("s5_verify")
           [] outcome = "raises" -> GuardRaise("GetWindowText")
    /\ UNCHANGED << blocked, _input_blocked, unblock_requests, project_attempt >>
    /\ OnlyGuard

\* step 5: self._verify_sidebar_selection(project_name), whose ocr.predict
\* is inside try/finally without an except
guard_step5_verify ==
    /\ guard_pc = "s5_verify"
    /\ \E outcome \in Outcomes :
         CASE outcome = "truthy" -> GuardGoto("step6_10") /\ UNCHANGED project_attempt
           [] outcome = "falsy" -> NextProjectAttempt
           [] outcome = "raises" -> GuardRaise("ocr.predict") /\ UNCHANGED project_attempt
    /\ UNCHANGED << blocked, _input_blocked, unblock_requests >>
    /\ OnlyGuard

\* steps 6 to 10 and the validation of the response
guard_steps_after ==
    /\ guard_pc = "step6_10"
    /\ \E outcome \in Outcomes :
         CASE outcome = "truthy" -> GuardReturn("success")
           [] outcome = "falsy" -> GuardReturn("failure")
           [] outcome = "raises" -> GuardRaise("GetWindowRect")
    /\ UNCHANGED << blocked, _input_blocked, unblock_requests, project_attempt >>
    /\ OnlyGuard

\* input_blocked: finally: if blocked: block_input(False); then the return
\* value or the exception reaches escalate, which has no try around the call
input_blocked_exit_on_return_only ==
    /\ guard_pc = "exit"
    /\ IF blocked /\ leaving # "exception"
       THEN /\ unblock_requests' = unblock_requests + 1
            /\ \E released \in BOOLEAN : _input_blocked' = (_input_blocked /\ ~released)
       ELSE UNCHANGED << unblock_requests, _input_blocked >>
    /\ guard_pc' = IF leaving = "exception" THEN "raised" ELSE "returned"
    /\ UNCHANGED << blocked, project_attempt, leaving, raised_in >>
    /\ OnlyGuard
input_blocked_exit ==
    /\ guard_pc = "exit"
    /\ IF blocked
       THEN /\ unblock_requests' = unblock_requests + 1
            /\ \E released \in BOOLEAN : _input_blocked' = (_input_blocked /\ ~released)
       ELSE UNCHANGED << unblock_requests, _input_blocked >>
    /\ guard_pc' = IF leaving = "exception" THEN "raised" ELSE "returned"
    /\ UNCHANGED << blocked, project_attempt, leaving, raised_in >>
    /\ OnlyGuard

NextGuard ==
    \/ input_blocked_enter
    \/ guard_steps_before
    \/ guard_step5_viable
    \/ guard_step5_foreground
    \/ guard_step5_find
    \/ guard_step5_title
    \/ guard_step5_verify
    \/ guard_steps_after
    \/ input_blocked_exit

SpecGuard == InitGuard /\ [][NextGuard]_vars

\* C18: no primitive failure leaves a step: execute_full_flow, and with it
\* escalate, always ends by returning a result dictionary.
C18_NoExceptionLeavesTheFlow ==
    guard_pc # "raised"

\* C19: when control is back at the caller of execute_full_flow, by a return
\* or by an exception, exactly one unblock request was issued if the
\* blocking had been acquired, and none if it had not; until then none is.
C19_UnblockedOnEveryExit ==
    /\ guard_pc \in {"returned", "raised"} =>
           unblock_requests = (IF blocked THEN 1 ELSE 0)
    /\ guard_pc \notin {"returned", "raised"} => unblock_requests = 0

\* the flow was left by an exception while the input was blocked
C19_Witness ==
    /\ guard_pc = "raised"
    /\ blocked
    /\ unblock_requests = 1

(***************************************************************************)
(* ocr_extraction: the warm-up thread _preload_ocr and the callers of      *)
(* get_ocr, one action per statement that reads or writes the globals.     *)
(***************************************************************************)
\* the threads that call get_ocr
OcrCallers == {1, 2}

NoOcr == "None"
Engine == "PaddleOCR"
Unlocked == 0
PreloadThread == 3

\* the module was imported: start_ocr_preload set _ocr_loading and started
\* the thread
InitOcr ==
    /\ _ocr_instance = NoOcr
    /\ _ocr_loading = TRUE
    /\ _ocr_lock = Unlocked
    /\ preload_pc = "construct"
    /\ get_pc = [c \in OcrCallers |-> "idle"]
    /\ get_ret = [c \in OcrCallers |-> "none"]
    /\ published = <<>>
    /\ Parked({"ocr"})

\* _preload_ocr: instance = PaddleOCR(...); an exception goes to "except: pass"
preload_construct ==
    /\ preload_pc = "construct"
    /\ \E raised \in BOOLEAN :
         preload_pc' = IF raised THEN "finally" ELSE "acquire"
    /\ UNCHANGED << _ocr_instance, _ocr_loading, _ocr_lock, get_pc, get_ret, published >>
    /\ OnlyOcr

\* _preload_ocr: with _ocr_lock
preload_acquire ==
    /\ preload_pc = "acquire"
    /\ _ocr_lock = Unlocked
    /\ _ocr_lock' = PreloadThread
    /\ preload_pc' = "store"
    /\ UNCHANGED << _ocr_instance, _ocr_loading, get_pc, get_ret, published >>
    /\ OnlyOcr

\* _preload_ocr: if _ocr_instance is None: _ocr_instance = instance
preload_store ==
    /\ preload_pc = "store"
    /\ _ocr_instance' = IF _ocr_instance = NoOcr THEN Engine ELSE _ocr_instance
    /\ published' = IF _ocr_instance = NoOcr THEN Append(published, Engine) ELSE published
    /\ _ocr_lock' = Unlocked
    /\ preload_pc' = "finally"
    /\ UNCHANGED << _ocr_loading, get_pc, get_ret >>
    /\ OnlyOcr

\* _preload_ocr: finally: _ocr_loading = False
preload_finally ==
    /\ preload_pc = "finally"
    /\ _ocr_loading' = FALSE
    /\ preload_pc' = "done"
    /\ UNCHANGED << _ocr_instance, _ocr_lock, get_pc, get_ret, published >>
    /\ OnlyOcr

\* get_ocr, the fast path: if _ocr_instance is not None: return _ocr_instance
get_ocr_call(c) ==
    /\ get_pc[c] = "idle"
    /\ IF _ocr_instance # NoOcr
       THEN /\ get_pc' = [get_pc EXCEPT ![c] = "returned"]
            /\ get_ret' = [get_ret EXCEPT ![c] = _ocr_instance]
       ELSE /\ get_pc' = [get_pc EXCEPT ![c] = "acquire"]
            /\ get_ret' = get_ret
    /\ UNCHANGED << _ocr_instance, _ocr_loading, _ocr_lock, preload_pc, published >>
    /\ OnlyOcr

\* get_ocr: with _ocr_lock
get_ocr_acquire(c) ==
    /\ get_pc[c] = "acquire"
    /\ _ocr_lock = Unlocked
    /\ _ocr_lock' = c
    /\ get_pc' = [get_pc EXCEPT ![c] = "locked"]
    /\ UNCHANGED << _ocr_instance, _ocr_loading, preload_pc, get_ret, published >>
    /\ OnlyOcr

\* get_ocr, under the lock: return the instance if there is one, load it if
\* nothing is loading (PaddleOCR may raise), else leave the with block
get_ocr_locked(c) ==
    /\ get_pc[c] = "locked"
    /\ _ocr_lock' = Unlocked
    /\ IF _ocr_instance # NoOcr
       THEN /\ get_pc' = [get_pc EXCEPT ![c] = "returned"]
            /\ get_ret' = [get_ret EXCEPT ![c] = _ocr_instance]
            /\ UNCHANGED << _ocr_instance, published >>
       ELSE IF ~_ocr_loading
            THEN \E raised \in BOOLEAN :
                   IF raised
                   THEN /\ get_pc' = [get_pc EXCEPT ![c] = "raised"]
                        /\ UNCHANGED << _ocr_instance, get_ret, published >>
                   ELSE /\ _ocr_instance' = Engine
                        /\ published' = Append(published, Engine)
                        /\ get_pc' = [get_pc EXCEPT ![c] = "wait"]
                        /\ get_ret' = get_ret
            ELSE /\ get_pc' = [get_pc EXCEPT ![c] = "wait"]
                 /\ UNCHANGED << _ocr_instance, get_ret, published >>
    /\ UNCHANGED << _ocr_loading, preload_pc >>
    /\ OnlyOcr

\* get_ocr: while _ocr_loading and _ocr_instance is None: sleep; when the
\* condition is false: return _ocr_instance
get_ocr_wait(c) ==
    /\ get_pc[c] = "wait"
    /\ ~(_ocr_loading /\ _ocr_instance = NoOcr)
    /\ get_pc' = [get_pc EXCEPT ![c] = "returned"]
    /\ get_ret' = [get_ret EXCEPT ![c] = _ocr_instance]
    /\ UNCHANGED << _ocr_instance, _ocr_loading, _ocr_lock, preload_pc, published >>
    /\ OnlyOcr

NextOcr ==
    \/ preload_construct
    \/ preload_acquire
    \/ preload_store
    \/ preload_finally
    \/ \E c \in OcrCallers : get_ocr_call(c)
    \/ \E c \in OcrCallers : get_ocr_acquire(c)
    \/ \E c \in OcrCallers : get_ocr_locked(c)
    \/ \E c \in OcrCallers : get_ocr_wait(c)

SpecOcr == InitOcr /\ [][NextOcr]_vars

\* C20: get_ocr never returns None, whatever the interleaving with the
\* warm-up thread: a caller that returns has an engine instance.
C20_GetOcrNeverReturnsNone ==
    \A c \in OcrCallers : get_pc[c] = "returned" => get_ret[c] = Engine

(***************************************************************************)
(* driver_robust.main: one request read from stdin, parsed, dispatched to  *)
(* a handler of RobustDriver, and its result printed.                      *)
(***************************************************************************)
KnownActions ==
    {"check_chatgpt", "focus_chatgpt", "find_conversation", "send_message",
     "wait_for_response", "get_last_response", "escalate"}

\* the actions whose branch of main calls params.get
ActionsReadingParams ==
    {"find_conversation", "send_message", "wait_for_response", "escalate"}

\* {"action": "<a>"}
RequestOf(a) == <<"{">> \o Member("action", Str(<<a>>)) \o <<"}">>

\* {"action": "<a>", "params": <params>}
RequestWith(a, params) ==
    <<"{">> \o Member("action", Str(<<a>>)) \o <<",", Blank>>
    \o Member("params", params) \o <<"}">>

ParamsTexts ==
    { <<"{", "}">>,
      <<"{">> \o Member("message", Str(<<"hi">>)) \o <<"}">>,
      <<"null">>,
      <<"[", "]">> }

\* what may arrive on stdin
StdinTexts ==
    { RequestOf(a) : a \in KnownActions \cup {"frobnicate"} }
    \cup { RequestWith(a, p) : a \in {"send_message", "escalate", "focus_chatgpt"},
                               p \in ParamsTexts }
    \cup { EmptyText, <<"{">>, <<"not", " ", "json">>, <<"{", "}">>,
           <<"[", "]">>, <<"42">>, <<"null">>, Str(<<"escalate">>),
           <<"[">> \o RequestOf("escalate") \o <<"]">> }

NoCommand == [t |-> "none"]
NoParams == [t |-> "dict", keys |-> <<>>, vals |-> <<>>]

InitMain ==
    /\ main_pc = "read"
    /\ stdin_text \in StdinTexts
    /\ command = NoCommand
    /\ handler = "none"
    /\ stdout = <<>>
    /\ Parked({"main"})

\* print(json.dumps(result))
MainPrint(printed) == stdout' = Append(stdout, printed)

\* input_data = sys.stdin.read(); command = json.loads(input_data), with
\* "except json.JSONDecodeError" printing the error response
main_read ==
    /\ main_pc = "read"
    /\ LET r == JsonLoads(stdin_text)
       IN  IF r.ok
           THEN /\ command' = r.val
                /\ main_pc' = "dispatch"
                /\ UNCHANGED stdout
           ELSE /\ command' = command
                /\ main_pc' = "exit"
                /\ MainPrint([success |-> FALSE, error |-> "Invalid JSON input"])
    /\ UNCHANGED << stdin_text, handler >>
    /\ OnlyMain

\* an attribute of a value that has no such attribute: AttributeError, which
\* nothing in main catches
MainAttributeError ==
    /\ main_pc' = "crashed"
    /\ UNCHANGED << handler, stdout >>

\* action = command.get("action"); params = command.get("params", {});
\* then the if/elif chain up to the call of the handler
main_dispatch ==
    /\ main_pc = "dispatch"
    /\ IF ~IsDict(command)
       THEN MainAttributeError
       ELSE LET action == DictGet(command, <<"action">>, [t |-> "lit", s |-> <<"null">>])
                params == DictGet(command, <<"params">>, NoParams)
                name == IF action.t = "str" /\ Len(action.s) = 1 THEN action.s[1] ELSE ""
            IN  IF name \notin KnownActions
                THEN /\ main_pc' = "exit"
                     /\ handler' = handler
                     /\ MainPrint([success |-> FALSE, error |-> "Unknown action"])
                ELSE IF name \in ActionsReadingParams /\ ~IsDict(params)
                THEN MainAttributeError
                ELSE /\ main_pc' = "handler"
                     /\ handler' = name
                     /\ UNCHANGED stdout
    /\ UNCHANGED << stdin_text, command >>
    /\ OnlyMain

\* result = driver.<action>(...); print(json.dumps(result)); a handler
\* returns a dict with success, or raises what its window calls raise
main_handler ==
    /\ main_pc = "handler"
    /\ \E outcome \in {"success", "failure", "raises"} :
         IF outcome = "raises"
         THEN main_pc' = "crashed" /\ UNCHANGED stdout
         ELSE /\ main_pc' = "exit"
              /\ MainPrint([success |-> outcome = "success", error |-> ""])
    /\ UNCHANGED << stdin_text, command, handler >>
    /\ OnlyMain

NextMain ==
    \/ main_read
    \/ main_dispatch
    \/ main_handler

SpecMain == InitMain /\ [][NextMain]_vars

\* C21: main emits exactly one JSON response object with a boolean success
\* field for every request read from stdin.
C21_OneResponsePerRequest ==
    main_pc \in {"exit", "crashed"} =>
        /\ Len(stdout) = 1
        /\ stdout[1].success \in BOOLEAN

(***************************************************************************)
(* The timeout of the wait for the response, as the wait_for_response      *)
(* command and the escalate command hand it to step9_wait_for_response.    *)
(* Times are in tenths of a second.                                        *)
(***************************************************************************)
\* timeout_ms / 1000.0, in tenths of a second
SecondsTenths(ms) == ms \div 100

\* step9_wait_for_response(self, timeout: float = 120.0)
step9_default_timeout == 1200

\* the values of timeout_ms a request may carry; 600000 is the default
TimeoutsMs == {500, 30000, 120000, 600000}

\* how far the clock moves between two evaluations of the while condition
ClockAdvances == {300, 1200}

InitTimeout ==
    /\ timeout_pc = "idle"
    /\ timeout_command \in {"wait_for_response", "escalate"}
    /\ timeout_ms \in TimeoutsMs
    /\ step9_timeout = 0
    /\ elapsed = 0
    /\ timeout_ret = "none"
    /\ Parked({"timeout"})

\* wait_for_response: self.flow.step9_wait_for_response(timeout=timeout_sec)
wait_for_response_call ==
    /\ timeout_pc = "idle"
    /\ timeout_command = "wait_for_response"
    /\ step9_timeout' = SecondsTenths(timeout_ms)
    /\ timeout_pc' = "waiting"
    /\ UNCHANGED << timeout_command, timeout_ms, elapsed, timeout_ret >>
    /\ OnlyTimeout

\* escalate: self.flow.execute_full_flow(project_name, conversation_name,
\* prompt), whose step 9 is self.step9_wait_for_response()
escalate_wait_call ==
    /\ timeout_pc = "idle"
    /\ timeout_command = "escalate"
    /\ step9_timeout' = step9_default_timeout
    /\ timeout_pc' = "waiting"
    /\ UNCHANGED << timeout_command, timeout_ms, elapsed, timeout_ret >>
    /\ OnlyTimeout

\* step 9: while (time.time() - start_time) < timeout: one poll, which sees
\* the response complete or sleeps; after the loop: return False
step9_poll ==
    /\ timeout_pc = "waiting"
    /\ IF elapsed < step9_timeout
       THEN \E complete \in BOOLEAN, dt \in ClockAdvances :
              IF complete
              THEN /\ timeout_pc' = "done"
                   /\ timeout_ret' = "True"
                   /\ elapsed' = elapsed
              ELSE /\ elapsed' = elapsed + dt
                   /\ UNCHANGED << timeout_pc, timeout_ret >>
       ELSE /\ timeout_pc' = "done"
            /\ timeout_ret' = "False"
            /\ elapsed' = elapsed
    /\ UNCHANGED << timeout_command, timeout_ms, step9_timeout >>
    /\ OnlyTimeout

NextTimeout ==
    \/ wait_for_response_call
    \/ escalate_wait_call
    \/ step9_poll

SpecTimeout == InitTimeout /\ [][NextTimeout]_vars

\* C22: the wait for the response of a flow started by escalate(timeout_ms=T)
\* uses a timeout derived from T, as the wait_for_response command does.
C22_WaitUsesTimeoutMs ==
    timeout_pc # "idle" => step9_timeout = SecondsTenths(timeout_ms)

(***************************************************************************)
(* fuzzy_match.py: similarity_ratio, fuzzy_match and fuzzy_contains.  The  *)
(* texts here are sequences of single characters; a ratio is the pair of   *)
(* its numerator and denominator.                                          *)
(***************************************************************************)
Ratio(n, d) == [num |-> n, den |-> d]
RatioGE(x, y) == x.num * y.den >= y.num * x.den
RatioGT(x, y) == x.num * y.den > y.num * x.den

\* the length of the block of equal characters that starts at a[i] and b[j]
RECURSIVE RunLen(_, _, _, _)
RunLen(a, b, i, j) ==
    IF i > Len(a) \/ j > Len(b) THEN 0
    ELSE IF a[i] # b[j] THEN 0
    ELSE 1 + RunLen(a, b, i + 1, j + 1)

\* SequenceMatcher.find_longest_match: the longest block; of those the one
\* that starts earliest in a, and of those the one that starts earliest in b
find_longest_match(a, b) ==
    LET runs == { RunLen(a, b, i, j) : i \in 1..Len(a), j \in 1..Len(b) }
        k == CHOOSE n \in runs : \A o \in runs : o <= n
        besti == CHOOSE i \in 1..Len(a) :
                    /\ \E j \in 1..Len(b) : RunLen(a, b, i, j) = k
                    /\ \A h \in 1..(i - 1) : \A j \in 1..Len(b) : RunLen(a, b, h, j) # k
        bestj == CHOOSE j \in 1..Len(b) :
                    /\ RunLen(a, b, besti, j) = k
                    /\ \A h \in 1..(j - 1) : RunLen(a, b, besti, h) # k
    IN  [a |-> besti, b |-> bestj, size |-> k]

\* SequenceMatcher.get_matching_blocks: the sum of the sizes of the blocks,
\* the longest one first, then those to its left and those to its right
RECURSIVE matches(_, _)
matches(a, b) ==
    IF a = <<>> \/ b = <<>> THEN 0
    ELSE LET m == find_longest_match(a, b)
         IN  IF m.size = 0 THEN 0
             ELSE m.size
                  + matches(SubSeq(a, 1, m.a - 1), SubSeq(b, 1, m.b - 1))
                  + matches(SubSeq(a, m.a + m.size, Len(a)),
                            SubSeq(b, m.b + m.size, Len(b)))

\* similarity_ratio(s1, s2): SequenceMatcher(None, s1.lower(), s2.lower()).ratio()
similarity_ratio(s1, s2) ==
    IF s1 = <<>> \/ s2 = <<>> THEN Ratio(0, 1)
    ELSE Ratio(2 * matches(Lower(s1), Lower(s2)), Len(s1) + Len(s2))

\* str.split(): the words of a text, in order
RECURSIVE split(_, _)
split(text, cur) ==
    IF text = <<>> THEN (IF cur = <<>> THEN <<>> ELSE <<cur>>)
    ELSE IF Head(text) \in Whitespace
         THEN (IF cur = <<>> THEN <<>> ELSE <<cur>>) \o split(Tail(text), <<>>)
         ELSE split(Tail(text), Append(cur, Head(text)))

word_similarity == Ratio(8, 10)
most_words == Ratio(7, 10)

\* fuzzy_contains(target, text, threshold)
fuzzy_contains(target, text, threshold) ==
    LET target_lower == Lower(target)
        text_lower == Lower(text)
        target_words == split(target_lower, <<>>)
        text_words == split(text_lower, <<>>)
        matched_words ==
            Cardinality({ i \in 1..Len(target_words) :
                \E j \in 1..Len(text_words) :
                    \/ target_words[i] = text_words[j]
                    \/ RatioGE(similarity_ratio(target_words[i], text_words[j]),
                               word_similarity) })
    IN  IF target = <<>> \/ text = <<>> THEN FALSE
        ELSE IF Contains(text_lower, target_lower) \/ Contains(target_lower, text_lower)
        THEN TRUE
        ELSE IF RatioGE(similarity_ratio(target, text), threshold) THEN TRUE
        ELSE IF target_words = <<>> THEN FALSE
        ELSE RatioGE(Ratio(matched_words, 1),
                     Ratio(Len(target_words) * most_words.num, most_words.den))

\* None, as fuzzy_match returns it and as best_match starts
None == [none |-> TRUE]

MinLen(a, b) == IF Len(a) <= Len(b) THEN Len(a) ELSE Len(b)
MaxLen(a, b) == IF Len(a) >= Len(b) THEN Len(a) ELSE Len(b)

\* fuzzy_match: if best_score >= threshold
MeetsThreshold_always(best_score, threshold) == TRUE

MeetsThreshold(best_score, threshold) == RatioGE(best_score, threshold)

\* fuzzy_match: the loop over the candidates from the i-th on, and the
\* return after it
RECURSIVE fuzzy_match_from(_, _, _, _, _, _)
fuzzy_match_from(target, candidates, threshold, i, best_match, best_score) ==
    IF i > Len(candidates)
    THEN IF MeetsThreshold(best_score, threshold)
         THEN [match |-> best_match, score |-> best_score]
         ELSE None
    ELSE LET candidate == candidates[i]
             target_lower == Lower(target)
             candidate_lower == Lower(candidate)
             contained == \/ Contains(candidate_lower, target_lower)
                          \/ Contains(target_lower, candidate_lower)
             length_score == Ratio(MinLen(target_lower, candidate_lower),
                                   MaxLen(target_lower, candidate_lower))
             score == similarity_ratio(target, candidate)
         IN  IF candidate = <<>>
             THEN fuzzy_match_from(target, candidates, threshold, i + 1,
                                   best_match, best_score)
             ELSE IF target_lower = candidate_lower
             THEN [match |-> candidate, score |-> Ratio(1, 1)]
             ELSE IF contained /\ RatioGT(length_score, best_score)
             THEN fuzzy_match_from(target, candidates, threshold, i + 1,
                                   candidate, length_score)
             ELSE IF RatioGT(score, best_score)
             THEN fuzzy_match_from(target, candidates, threshold, i + 1,
                                   candidate, score)
             ELSE fuzzy_match_from(target, candidates, threshold, i + 1,
                                   best_match, best_score)

\* fuzzy_match(target, candidates, threshold)
fuzzy_match(target, candidates, threshold) ==
    IF target = <<>> \/ candidates = <<>> THEN None
    ELSE fuzzy_match_from(target, candidates, threshold, 1, None, Ratio(0, 1))

Codex == <<"C", "o", "d", "e", "x">>
Code == <<"C", "o", "d", "e">>
SearchChats == <<"S", "e", "a", "r", "c", "h", " ", "c", "h", "a", "t", "s">>
Search == <<"S", "e", "a", "r", "c", "h">>
NewChat == <<"N", "e", "w", " ", "c", "h", "a", "t">>
Library == <<"L", "i", "b", "r", "a", "r", "y">>
Libary == <<"L", "i", "b", "a", "r", "y">>
EnsignKarl == <<"E", "n", "s", "i", "g", "n", " ", "K", "a", "r", "l">>
EnsianKarl == <<"E", "n", "s", "i", "a", "n", " ", "K", "a", "r", "l">>

\* the texts of the test cases of the module, and the empty text
FuzzyTexts ==
    { <<>>, Codex, Code, SearchChats, Search, NewChat, Library, Libary,
      EnsignKarl, EnsianKarl }

\* the candidate lists: up to two of the texts an OCR pass returned
FuzzyCandidates ==
    LET ocr_results == { <<>>, Codex, Code, Search, Libary, EnsianKarl }
    IN  { <<>> } \cup { <<c>> : c \in ocr_results }
                 \cup { <<c, d>> : c \in ocr_results, d \in ocr_results }

\* threshold: Minimum similarity ratio to consider a match (0.0-1.0)
FuzzyThresholds == { Ratio(0, 1), Ratio(1, 2), Ratio(7, 10), Ratio(17, 20), Ratio(1, 1) }

fuzzy_contains_threshold == Ratio(3, 4)

InitFuzzy ==
    /\ fuzzy_pc = "call"
    /\ fuzzy_target \in FuzzyTexts
    /\ \/ /\ fuzzy_function = "fuzzy_contains"
          /\ fuzzy_text \in FuzzyTexts
          /\ fuzzy_candidates = <<>>
          /\ fuzzy_threshold = fuzzy_contains_threshold
       \/ /\ fuzzy_function = "fuzzy_match"
          /\ fuzzy_text = <<>>
          /\ fuzzy_candidates \in FuzzyCandidates
          /\ fuzzy_threshold \in FuzzyThresholds
    /\ fuzzy_ret = None
    /\ Parked({"fuzzy"})

fuzzy_contains_call ==
    /\ fuzzy_pc = "call"
    /\ fuzzy_function = "fuzzy_contains"
    /\ fuzzy_ret' = [value |-> fuzzy_contains(fuzzy_target, fuzzy_text, fuzzy_threshold)]
    /\ fuzzy_pc' = "done"
    /\ UNCHANGED << fuzzy_function, fuzzy_target, fuzzy_text, fuzzy_candidates,
                    fuzzy_threshold >>
    /\ OnlyFuzzy

fuzzy_match_call ==
    /\ fuzzy_pc = "call"
    /\ fuzzy_function = "fuzzy_match"
    /\ fuzzy_ret' = fuzzy_match(fuzzy_target, fuzzy_candidates, fuzzy_threshold)
    /\ fuzzy_pc' = "done"
    /\ UNCHANGED << fuzzy_function, fuzzy_target, fuzzy_text, fuzzy_candidates,
                    fuzzy_threshold >>
    /\ OnlyFuzzy

NextFuzzy ==
    \/ fuzzy_contains_call
    \/ fuzzy_match_call

SpecFuzzy == InitFuzzy /\ [][NextFuzzy]_vars

\* the cases the authors list as no match: the text is a shorter fragment
\* of the target
AuthorsFragments == { << Codex, Code >>, << SearchChats, Search >> }

\* C23: fuzzy_contains returns false when the text is only a shorter
\* fragment of the target that lacks some of its characters or words and is
\* below the similarity threshold (target Codex with text Code, target
\* Search chats with text Search), and returns true for identical strings.
C23_FragmentIsNoMatch ==
    (fuzzy_pc = "done" /\ fuzzy_function = "fuzzy_contains") =>
        /\ << fuzzy_target, fuzzy_text >> \in AuthorsFragments => ~fuzzy_ret.value
        /\ (fuzzy_target = fuzzy_text /\ fuzzy_target # <<>>) => fuzzy_ret.value

\* the scores fuzzy_match may give a candidate: 1.0 for an exact match, the
\* ratio of the lengths when one text contains the other, similarity_ratio
CandidateScores(target, candidate) ==
    LET target_lower == Lower(target)
        candidate_lower == Lower(candidate)
    IN  IF candidate # <<>> /\ target_lower = candidate_lower THEN { Ratio(1, 1) }
        ELSE { similarity_ratio(target, candidate) }
             \cup IF /\ candidate # <<>>
                     /\ \/ Contains(candidate_lower, target_lower)
                        \/ Contains(target_lower, candidate_lower)
                  THEN { Ratio(MinLen(target_lower, candidate_lower),
                               MaxLen(target_lower, candidate_lower)) }
                  ELSE {}

\* C25: a (candidate, score) pair that fuzzy_match returns has a score of at
\* least the threshold, and fuzzy_match returns None when no candidate
\* reaches the threshold.
C25_ReturnedScoreReachesThreshold ==
    (fuzzy_pc = "done" /\ fuzzy_function = "fuzzy_match") =>
        /\ fuzzy_ret # None => RatioGE(fuzzy_ret.score, fuzzy_threshold)
        /\ (\A i \in 1..Len(fuzzy_candidates) :
              \A score \in CandidateScores(fuzzy_target, fuzzy_candidates[i]) :
                 ~RatioGE(score, fuzzy_threshold))
           => fuzzy_ret = None

\* a similar, not equal, candidate was returned under the default threshold
C25_Witness ==
    /\ fuzzy_pc = "done"
    /\ fuzzy_function = "fuzzy_match"
    /\ fuzzy_threshold = Ratio(7, 10)
    /\ fuzzy_ret # None
    /\ ~RatioGE(fuzzy_ret.score, Ratio(1, 1))

(***************************************************************************)
(* _find_and_click_project_item: the passes of the scan of the project     *)
(* view.  A view is the number of scroll increments between the top of the *)
(* list and what the window shows.                                         *)
(***************************************************************************)
max_scroll_attempts == 5
scroll_to_top_actions == 3

\* the views of the list: the top is 0
Views == 0..4

ScrollUp(v, n) == IF v >= n THEN v - n ELSE 0
ScrollDown(v) == IF v + 1 \in Views THEN v + 1 ELSE v

InitScan ==
    /\ scan_pc = "scroll"
    /\ scroll_attempt = 0
    /\ initial_view \in Views
    /\ view = initial_view
    /\ label_view \in Views
    /\ scroll_actions = 0
    /\ scan_disturbed = FALSE
    /\ scan_ret = "none"
    /\ Parked({"scan"})

\* for scroll_attempt in range(max_scroll_attempts + 1): the scrolling that
\* opens the pass.  The second pass scrolls up to the top if the window is
\* in front; the later ones scroll down once, or skip the pass.
scan_scroll ==
    /\ scan_pc = "scroll"
    /\ scroll_attempt <= max_scroll_attempts
    /\ \E in_front \in BOOLEAN :
         /\ scan_disturbed' = (scan_disturbed \/ (scroll_attempt > 0 /\ ~in_front))
         /\ IF scroll_attempt = 0
            THEN /\ scan_pc' = "capture"
                 /\ UNCHANGED << scroll_attempt, view, scroll_actions >>
            ELSE IF scroll_attempt = 1
            THEN /\ scan_pc' = "capture"
                 /\ view' = IF in_front THEN ScrollUp(view, scroll_to_top_actions) ELSE view
                 /\ scroll_actions' = IF in_front
                                      THEN scroll_actions + scroll_to_top_actions
                                      ELSE scroll_actions
                 /\ UNCHANGED scroll_attempt
            ELSE IF in_front
            THEN /\ scan_pc' = "capture"
                 /\ view' = ScrollDown(view)
                 /\ scroll_actions' = scroll_actions + 1
                 /\ UNCHANGED scroll_attempt
            ELSE /\ scroll_attempt' = scroll_attempt + 1
                 /\ UNCHANGED << scan_pc, view, scroll_actions >>
    /\ UNCHANGED << initial_view, label_view, scan_ret >>
    /\ OnlyScan

\* the rest of the pass: _ensure_foreground, the screenshot, the OCR, and
\* return self._safe_click(...) at the first text that matches
scan_capture ==
    /\ scan_pc = "capture"
    /\ \E in_front \in BOOLEAN, clicked \in BOOLEAN :
         IF ~in_front
         THEN /\ scroll_attempt' = scroll_attempt + 1
              /\ scan_pc' = "scroll"
              /\ scan_disturbed' = TRUE
              /\ UNCHANGED scan_ret
         ELSE IF view = label_view
         THEN /\ scan_pc' = "done"
              /\ scan_ret' = IF clicked THEN "True" ELSE "False"
              /\ scan_disturbed' = (scan_disturbed \/ ~clicked)
              /\ UNCHANGED scroll_attempt
         ELSE /\ scroll_attempt' = scroll_attempt + 1
              /\ scan_pc' = "scroll"
              /\ UNCHANGED << scan_ret, scan_disturbed >>
    /\ UNCHANGED << initial_view, view, label_view, scroll_actions >>
    /\ OnlyScan

\* after the loop: return False
scan_not_found ==
    /\ scan_pc = "scroll"
    /\ scroll_attempt > max_scroll_attempts
    /\ scan_pc' = "done"
    /\ scan_ret' = "False"
    /\ UNCHANGED << scroll_attempt, initial_view, view, label_view, scroll_actions,
                    scan_disturbed >>
    /\ OnlyScan

NextScan ==
    \/ scan_scroll
    \/ scan_capture
    \/ scan_not_found

SpecScan == InitScan /\ [][NextScan]_vars

\* C24: when the label is not recognised in the view the window shows at
\* first but is recognised in the view one scroll increment further, the
\* scan succeeds having issued exactly one scroll action (here even with
\* every focus check passing and the click landing).
C24_FoundAfterOneScroll ==
    (scan_pc = "done" /\ label_view = initial_view + 1 /\ ~scan_disturbed) =>
        /\ scan_ret = "True"
        /\ scroll_actions = 1

(***************************************************************************)
(* _get_input_button_state on every count of dark pixels that the 30 x 30  *)
(* area around the button can hold.                                        *)
(***************************************************************************)
button_area_side == 30

DarkPixelCounts == 0..(button_area_side * button_area_side)

InitButton ==
    /\ button_pc = "call"
    /\ button_dark_pixels \in DarkPixelCounts
    /\ button_state = "none"
    /\ Parked({"button"})

button_state_call ==
    /\ button_pc = "call"
    /\ button_state' = _get_input_button_state(button_dark_pixels)
    /\ button_pc' = "done"
    /\ UNCHANGED button_dark_pixels
    /\ OnlyButton

NextButton == button_state_call

SpecButton == InitButton /\ [][NextButton]_vars

\* C26: for every count d >= 0 of dark pixels the classifier returns exactly
\* one of generating, ready and idle; the three ranges of counts (up to 60,
\* between 60 and 400, from 400 on) are disjoint and cover every count.
C26_ExactlyOneButtonState ==
    button_pc = "done" =>
        /\ button_state \in {"generating", "ready", "idle"}
        /\ button_state = "idle" <=> button_dark_pixels <= 60
        /\ button_state = "generating" <=> (60 < button_dark_pixels /\ button_dark_pixels < 400)
        /\ button_state = "ready" <=> button_dark_pixels >= 400

\* the boundary count 400 has been classified
C26_Witness ==
    /\ button_pc = "done"
    /\ button_dark_pixels = 400
    /\ button_state = "ready"

(***************************************************************************)
(* SidebarHoverDetector: analyze_rows and find_highlighted_row.  A band of *)
(* the image is given by the deviation of its background from NORMAL_BG,   *)
(* in tenths, or has too few background pixels to be analysed.             *)
(***************************************************************************)
\* deviation_threshold: float = 2.0
deviation_threshold == 20

\* a band: whether it has more than 100 background pixels, and the deviation
\* of their mean
Band(enough, d) == [enough |-> enough, deviation |-> d]

\* what a band of the sidebar image may show
Bands == { Band(FALSE, 0) } \cup { Band(TRUE, d) : d \in {-10, 19, 20, 35} }

MaxBands == 3

\* the images: up to MaxBands bands from top to bottom
RECURSIVE SidebarImages(_)
SidebarImages(n) ==
    IF n = 0 THEN { <<>> }
    ELSE LET shorter == SidebarImages(n - 1)
         IN  shorter \cup { Append(img, b) : img \in shorter, b \in Bands }

\* analyze_rows: a row for each band with enough background pixels
RECURSIVE analyze_rows(_, _)
analyze_rows(image, row_idx) ==
    IF row_idx >= Len(image) THEN <<>>
    ELSE LET band == image[row_idx + 1]
         IN  (IF ~band.enough THEN <<>>
              ELSE << [idx |-> row_idx, deviation |-> band.deviation] >>)
             \o analyze_rows(image, row_idx + 1)

\* max(deviations)
max(deviations) ==
    CHOOSE d \in { deviations[i] : i \in 1..Len(deviations) } :
        \A i \in 1..Len(deviations) : deviations[i] <= d

\* list.index(value) with the last position of the value
index_last(deviations, value) ==
    CHOOSE i \in 1..Len(deviations) :
        /\ deviations[i] = value
        /\ \A j \in (i + 1)..Len(deviations) : deviations[j] # value

\* list.index(value): the first position of the value
index(deviations, value) ==
    CHOOSE i \in 1..Len(deviations) :
        /\ deviations[i] = value
        /\ \A j \in 1..(i - 1) : deviations[j] # value

\* find_highlighted_row, from the rows analysed
find_highlighted_row(rows) ==
    LET deviations == [i \in 1..Len(rows) |-> rows[i].deviation]
        max_dev == max(deviations)
    IN  IF rows = <<>> THEN None
        ELSE IF max_dev < deviation_threshold THEN None
        ELSE rows[index(deviations, max_dev)]

InitHover ==
    /\ hover_pc = "call"
    /\ sidebar_img \in SidebarImages(MaxBands)
    /\ hover_rows = <<>>
    /\ hover_ret = None
    /\ Parked({"hover"})

find_highlighted_row_call ==
    /\ hover_pc = "call"
    /\ hover_rows' = analyze_rows(sidebar_img, 0)
    /\ hover_ret' = find_highlighted_row(analyze_rows(sidebar_img, 0))
    /\ hover_pc' = "done"
    /\ UNCHANGED sidebar_img
    /\ OnlyHover

NextHover == find_highlighted_row_call

SpecHover == InitHover /\ [][NextHover]_vars

\* C27: find_highlighted_row returns None when there are no rows or every
\* row's deviation is below deviation_threshold; otherwise it returns the
\* row with the maximum deviation, the topmost one when several rows tie.
C27_TopmostRowOfMaximumDeviation ==
    hover_pc = "done" =>
        IF \A i \in 1..Len(hover_rows) : hover_rows[i].deviation < deviation_threshold
        THEN hover_ret = None
        ELSE \E i \in 1..Len(hover_rows) :
                /\ hover_ret = hover_rows[i]
                /\ \A j \in 1..Len(hover_rows) :
                      hover_rows[j].deviation <= hover_rows[i].deviation
                /\ \A j \in 1..(i - 1) :
                      hover_rows[j].deviation < hover_rows[i].deviation

\* two rows tie at the maximum deviation and one of them was returned
C27_Witness ==
    /\ hover_pc = "done"
    /\ hover_ret # None
    /\ \E i, j \in 1..Len(hover_rows) :
          /\ i # j
          /\ hover_rows[i].deviation = hover_ret.deviation
          /\ hover_rows[j].deviation = hover_ret.deviation

\* C28: in every attempt of _retry_with_recovery the operation is invoked
\* only after, in that attempt, _ensure_foreground has returned True and the
\* handle refresh, if one was needed, has succeeded; an attempt whose
\* refresh or focus recovery fails does not invoke the operation.
C28_OperationOnlyAfterRecovery ==
    \A i \in 1..Len(retry_log) :
        retry_log[i].call = "operation" =>
            /\ \E j \in 1..(i - 1) :
                  retry_log[j] = [attempt |-> retry_log[i].attempt,
                                  call |-> "foreground", ok |-> TRUE]
            /\ \A j \in 1..Len(retry_log) :
                  (retry_log[j].attempt = retry_log[i].attempt
                      /\ retry_log[j].call \in {"refresh", "foreground"})
                  => (retry_log[j].ok /\ j < i)

\* the first attempt ended at a failed focus recovery; the second one
\* refreshed the handle, recovered the focus and invoked the operation
C28_Witness ==
    /\ Len(retry_log) >= 4
    /\ retry_log[1] = [attempt |-> 1, call |-> "foreground", ok |-> FALSE]
    /\ retry_log[2] = [attempt |-> 2, call |-> "refresh", ok |-> TRUE]
    /\ retry_log[3] = [attempt |-> 2, call |-> "foreground", ok |-> TRUE]
    /\ retry_log[4].call = "operation"
    /\ retry_log[4].attempt = 2

(***************************************************************************)
(* _ensure_foreground call by call, with the window calls it issues, the   *)
(* reads of the foreground window it makes, and what the other processes   *)
(* do to the window in between.                                            *)
(***************************************************************************)
ChatGPTWindow == "ChatGPT window"

\* where GetWindowRect may find the window
WindowRects == {"left", "right"}

InitFront ==
    /\ front_pc = "idle"
    /\ front_attempt = 0
    /\ os_window \in {"foreground", "background", "minimized"}
    /\ os_window_rect \in WindowRects
    /\ self_hwnd = ChatGPTWindow
    /\ self_window_rect \in WindowRects
    /\ front_entry = [hwnd |-> self_hwnd, window_rect |-> self_window_rect]
    /\ front_log = <<>>
    /\ front_calls = {}
    /\ front_ret = "none"
    /\ Parked({"front"})

\* _ensure_foreground(max_attempts=3) is called
ensure_foreground_call ==
    /\ front_pc = "idle"
    /\ front_attempt' = 1
    /\ front_pc' = "check"
    /\ UNCHANGED << os_window, os_window_rect, self_hwnd, self_window_rect, front_entry,
                    front_log, front_calls, front_ret >>
    /\ OnlyFront

\* the history after a read of the foreground window or of the rectangle
FrontLogged(call, ok) ==
    Append(front_log, [attempt |-> front_attempt, call |-> call, ok |-> ok])

\* GetForegroundWindow() == self.hwnd
ForegroundIsTracked == os_window = "foreground" /\ self_hwnd = ChatGPTWindow

\* the end of a pass that did not return, with the loop left at once
EndOfPass_at_once ==
    /\ front_attempt' = front_attempt
    /\ front_pc' = "done"
    /\ front_ret' = "False"

\* the end of a pass that did not return: time.sleep(0.3) and the next
\* pass, or return False after the loop
EndOfPass ==
    IF front_attempt < ensure_foreground_attempts
    THEN /\ front_attempt' = front_attempt + 1
         /\ front_pc' = "check"
         /\ front_ret' = front_ret
    ELSE /\ front_attempt' = front_attempt
         /\ front_pc' = "done"
         /\ front_ret' = "False"

\* the first check with the restore made whatever it reads
front_check_always_restores ==
    /\ front_pc = "check"
    /\ front_log' = FrontLogged("foreground", ForegroundIsTracked)
    /\ front_pc' = "restore"
    /\ UNCHANGED << front_attempt, front_ret >>
    /\ UNCHANGED << os_window, os_window_rect, self_hwnd, self_window_rect, front_entry,
                    front_calls >>
    /\ OnlyFront

\* fg_hwnd = GetForegroundWindow(); if fg_hwnd == self.hwnd: return True
front_check ==
    /\ front_pc = "check"
    /\ front_log' = FrontLogged("foreground", ForegroundIsTracked)
    /\ IF ForegroundIsTracked
       THEN /\ front_pc' = "done"
            /\ front_ret' = "True"
            /\ UNCHANGED front_attempt
       ELSE /\ front_pc' = "restore"
            /\ UNCHANGED << front_attempt, front_ret >>
    /\ UNCHANGED << os_window, os_window_rect, self_hwnd, self_window_rect, front_entry,
                    front_calls >>
    /\ OnlyFront

\* if IsIconic(self.hwnd): ShowWindow(self.hwnd, SW_RESTORE), which shows
\* the window and may or may not bring it to the front
front_restore ==
    /\ front_pc = "restore"
    /\ IF os_window = "minimized"
       THEN /\ front_calls' = front_calls \cup {"ShowWindow(SW_RESTORE)"}
            /\ os_window' \in {"foreground", "background"}
       ELSE UNCHANGED << front_calls, os_window >>
    /\ front_pc' = "focus"
    /\ UNCHANGED << front_attempt, os_window_rect, self_hwnd, self_window_rect, front_entry,
                    front_log, front_ret >>
    /\ OnlyFront

\* AttachThreadInput, SetForegroundWindow, BringWindowToTop, SetFocus, and
\* SetForegroundWindow alone if one of them raises: the OS grants the focus,
\* ignores the request, or the fallback raises as well, which ends the pass
front_focus ==
    /\ front_pc = "focus"
    /\ IF os_window = "closed"
       THEN /\ front_calls' = front_calls \cup {"SetForegroundWindow"}
            /\ EndOfPass
            /\ UNCHANGED os_window
       ELSE /\ front_calls' = front_calls \cup {"AttachThreadInput", "SetForegroundWindow",
                                                "BringWindowToTop", "SetFocus"}
            /\ \E outcome \in {"granted", "ignored", "raised"} :
                 CASE outcome = "granted" ->
                        /\ os_window' = IF os_window = "minimized" THEN os_window
                                        ELSE "foreground"
                        /\ front_pc' = "verify"
                        /\ UNCHANGED << front_attempt, front_ret >>
                   [] outcome = "ignored" ->
                        /\ front_pc' = "verify"
                        /\ UNCHANGED << os_window, front_attempt, front_ret >>
                   [] outcome = "raised" ->
                        /\ EndOfPass
                        /\ UNCHANGED os_window
    /\ UNCHANGED << os_window_rect, self_hwnd, self_window_rect, front_entry, front_log >>
    /\ OnlyFront

\* if GetForegroundWindow() == self.hwnd, after SetForegroundWindow
front_verify ==
    /\ front_pc = "verify"
    /\ front_log' = FrontLogged("foreground", ForegroundIsTracked)
    /\ front_pc' = IF ForegroundIsTracked THEN "rect" ELSE "show"
    /\ UNCHANGED << front_attempt, os_window, os_window_rect, self_hwnd, self_window_rect,
                    front_entry, front_calls, front_ret >>
    /\ OnlyFront

\* self.window_rect = GetWindowRect(self.hwnd); return True.  GetWindowRect
\* raises for a window that exists no more, which ends the pass.
front_rect ==
    /\ front_pc = "rect"
    /\ front_log' = FrontLogged("rect", os_window # "closed")
    /\ IF os_window = "closed"
       THEN /\ EndOfPass
            /\ UNCHANGED self_window_rect
       ELSE /\ self_window_rect' = os_window_rect
            /\ front_pc' = "done"
            /\ front_ret' = "True"
            /\ UNCHANGED front_attempt
    /\ UNCHANGED << os_window, os_window_rect, self_hwnd, front_entry, front_calls >>
    /\ OnlyFront

\* ShowWindow(self.hwnd, SW_SHOW), which may or may not activate the window
front_show ==
    /\ front_pc = "show"
    /\ front_calls' = front_calls \cup {"ShowWindow(SW_SHOW)"}
    /\ \E activated \in BOOLEAN :
         os_window' = IF activated /\ os_window = "background" THEN "foreground"
                      ELSE os_window
    /\ front_pc' = "verify_show"
    /\ UNCHANGED << front_attempt, os_window_rect, self_hwnd, self_window_rect, front_entry,
                    front_log, front_ret >>
    /\ OnlyFront

\* if GetForegroundWindow() == self.hwnd, after ShowWindow
front_verify_show ==
    /\ front_pc = "verify_show"
    /\ front_log' = FrontLogged("foreground", ForegroundIsTracked)
    /\ IF ForegroundIsTracked
       THEN front_pc' = "rect" /\ UNCHANGED << front_attempt, front_ret >>
       ELSE EndOfPass
    /\ UNCHANGED << os_window, os_window_rect, self_hwnd, self_window_rect, front_entry,
                    front_calls >>
    /\ OnlyFront

\* what other processes do to the window while _ensure_foreground runs:
\* the antagonist's focus_away_from_chatgpt, minimize_chatgpt, move_window
\* and bring_to_front, and the application closing its window
window_disturbed ==
    /\ front_pc \notin {"idle", "done", "parked"}
    /\ \/ /\ os_window = "foreground"
          /\ os_window' = "background"
          /\ UNCHANGED os_window_rect
       \/ /\ os_window \in {"foreground", "background"}
          /\ os_window' = "minimized"
          /\ UNCHANGED os_window_rect
       \/ /\ os_window \in {"background", "minimized"}
          /\ os_window' = "foreground"
          /\ UNCHANGED os_window_rect
       \/ /\ os_window # "closed"
          /\ os_window_rect' \in WindowRects \ {os_window_rect}
          /\ UNCHANGED os_window
       \/ /\ os_window # "closed"
          /\ os_window' = "closed"
          /\ UNCHANGED os_window_rect
    /\ UNCHANGED << front_pc, front_attempt, self_hwnd, self_window_rect, front_entry,
                    front_log, front_calls, front_ret >>
    /\ OnlyFront

NextFront ==
    \/ ensure_foreground_call
    \/ front_check
    \/ front_restore
    \/ front_focus
    \/ front_verify
    \/ front_rect
    \/ front_show
    \/ front_verify_show
    \/ window_disturbed

SpecFront == InitFront /\ [][NextFront]_vars

\* the reads of the foreground window that equalled the tracked handle
MatchingReads ==
    { i \in 1..Len(front_log) : front_log[i].call = "foreground" /\ front_log[i].ok }

\* C29 as stated: _ensure_foreground returns True only if a read of the
\* foreground window during the call equalled the tracked handle, and
\* returns False only after max_attempts passes in each of which no such
\* read succeeded.
C29_FalseOnlyAfterFailedReads ==
    /\ front_ret = "True" => MatchingReads # {}
    /\ front_ret = "False" =>
          /\ front_attempt = ensure_foreground_attempts
          /\ MatchingReads = {}

\* C29: _ensure_foreground returns True only if a read of the foreground
\* window during the call equalled the tracked handle, and returns False
\* only after max_attempts passes, in each of which no such read succeeded
\* or the GetWindowRect that follows the read raised.
C29_FalseOnlyAfterPassesWithoutReturn ==
    /\ front_ret = "True" => MatchingReads # {}
    /\ front_ret = "False" =>
          /\ front_attempt = ensure_foreground_attempts
          /\ \A a \in 1..ensure_foreground_attempts :
                \E i \in 1..Len(front_log) : front_log[i].attempt = a
          /\ \A i \in MatchingReads :
                /\ i < Len(front_log)
                /\ front_log[i + 1] = [attempt |-> front_log[i].attempt,
                                       call |-> "rect", ok |-> FALSE]

\* False came back after three passes, one of which read the tracked handle
\* and then lost the window
C29_Witness ==
    /\ front_pc = "done"
    /\ front_ret = "False"
    /\ MatchingReads # {}

\* C30: when the tracked window is the foreground window at the first
\* check, _ensure_foreground returns True there, having issued no restore,
\* focus, show or thread-attach call, with hwnd and window_rect as they were.
C30_FastPathIssuesNoCall ==
    (front_log # <<>> /\ front_log[1].ok) =>
        /\ front_pc = "done"
        /\ front_ret = "True"
        /\ Len(front_log) = 1
        /\ front_calls = {}
        /\ self_hwnd = front_entry.hwnd
        /\ self_window_rect = front_entry.window_rect

\* the fast path was taken while the window had moved since window_rect
\* was last read
C30_Witness ==
    /\ front_pc = "done"
    /\ front_log # <<>>
    /\ front_log[1].ok
    /\ self_window_rect # os_window_rect

(***************************************************************************)
(* _ensure_foreground: the thread-input attachment around the focus calls  *)
(* of a pass, call by call.  What a read of the foreground window returns  *)
(* and which call raises is the environment's choice.                      *)
(***************************************************************************)
target_thread == "ChatGPT thread"

\* the threads that may own the foreground window
Threads == { target_thread, "Notepad thread", "Explorer thread" }

NoThread == "no thread"

InitAttach ==
    /\ attach_pc = "idle"
    /\ attach_attempt = 0
    /\ fg_thread = NoThread
    /\ thread_attached = NoThread
    /\ focus_raised = FALSE
    /\ attaches = 0
    /\ detaches = 0
    /\ attach_ret = "none"
    /\ Parked({"attach"})

\* the end of a pass that did not return: the next pass, or return False
EndOfAttachPass ==
    IF attach_attempt < ensure_foreground_attempts
    THEN /\ attach_attempt' = attach_attempt + 1
         /\ attach_pc' = "check"
         /\ attach_ret' = attach_ret
    ELSE /\ attach_attempt' = attach_attempt
         /\ attach_pc' = "done"
         /\ attach_ret' = "False"

attach_call ==
    /\ attach_pc = "idle"
    /\ attach_attempt' = 1
    /\ attach_pc' = "check"
    /\ UNCHANGED << fg_thread, thread_attached, focus_raised, attaches, detaches, attach_ret >>
    /\ OnlyAttach

\* if GetForegroundWindow() == self.hwnd: return True; otherwise the
\* restore of a minimized window, which may raise
attach_check ==
    /\ attach_pc = "check"
    /\ \E matched \in BOOLEAN, raised \in BOOLEAN :
         IF matched
         THEN /\ attach_pc' = "done"
              /\ attach_ret' = "True"
              /\ UNCHANGED attach_attempt
         ELSE IF raised
         THEN EndOfAttachPass
         ELSE /\ attach_pc' = "threads"
              /\ UNCHANGED << attach_attempt, attach_ret >>
    /\ UNCHANGED << fg_thread, thread_attached, focus_raised, attaches, detaches >>
    /\ OnlyAttach

\* the two GetWindowThreadProcessId calls and if fg_thread != target_thread
attach_threads ==
    /\ attach_pc = "threads"
    /\ \/ /\ attach_pc' = "fallback"
          /\ UNCHANGED fg_thread
       \/ \E thread \in Threads :
             /\ fg_thread' = thread
             /\ attach_pc' = IF thread # target_thread THEN "attach" ELSE "set"
    /\ UNCHANGED << attach_attempt, thread_attached, focus_raised, attaches, detaches,
                    attach_ret >>
    /\ OnlyAttach

\* AttachThreadInput(target_thread, fg_thread, True)
attach_thread_input ==
    /\ attach_pc = "attach"
    /\ \E raised \in BOOLEAN :
         IF raised
         THEN /\ attach_pc' = "fallback"
              /\ UNCHANGED << thread_attached, attaches >>
         ELSE /\ attach_pc' = "focus"
              /\ thread_attached' = fg_thread
              /\ attaches' = attaches + 1
    /\ UNCHANGED << fg_thread, attach_attempt, focus_raised, detaches, attach_ret >>
    /\ OnlyAttach

\* the focus calls inside a try without its finally
attach_focus_calls_no_finally ==
    /\ attach_pc = "focus"
    /\ \E raised \in BOOLEAN :
         /\ focus_raised' = raised
         /\ attach_pc' = IF raised THEN "fallback" ELSE "detach"
    /\ UNCHANGED << fg_thread, attach_attempt, thread_attached, attaches, detaches, attach_ret >>
    /\ OnlyAttach

\* try: SetForegroundWindow, BringWindowToTop, SetFocus; the finally runs
\* whether or not one of them raised
attach_focus_calls ==
    /\ attach_pc = "focus"
    /\ \E raised \in BOOLEAN :
         /\ focus_raised' = raised
         /\ attach_pc' = "detach"
    /\ UNCHANGED << fg_thread, attach_attempt, thread_attached, attaches, detaches, attach_ret >>
    /\ OnlyAttach

\* finally: AttachThreadInput(target_thread, fg_thread, False).  It raises
\* when one of the threads has ended, and the attachment has ended with it.
detach_thread_input ==
    /\ attach_pc = "detach"
    /\ thread_attached' = IF thread_attached = fg_thread THEN NoThread
                          ELSE thread_attached
    /\ detaches' = detaches + 1
    /\ \E raised \in BOOLEAN :
         attach_pc' = IF focus_raised \/ raised THEN "fallback" ELSE "verify"
    /\ focus_raised' = FALSE
    /\ UNCHANGED << fg_thread, attach_attempt, attaches, attach_ret >>
    /\ OnlyAttach

\* else: SetForegroundWindow(self.hwnd), for a window of the same thread
attach_set_foreground ==
    /\ attach_pc = "set"
    /\ \E raised \in BOOLEAN :
         attach_pc' = IF raised THEN "fallback" ELSE "verify"
    /\ UNCHANGED << fg_thread, attach_attempt, thread_attached, focus_raised, attaches, detaches,
                    attach_ret >>
    /\ OnlyAttach

\* except Exception: SetForegroundWindow(self.hwnd); if that raises too,
\* the except of the pass ends the pass
attach_fallback ==
    /\ attach_pc = "fallback"
    /\ \E raised \in BOOLEAN :
         IF raised
         THEN EndOfAttachPass
         ELSE /\ attach_pc' = "verify"
              /\ UNCHANGED << attach_attempt, attach_ret >>
    /\ UNCHANGED << fg_thread, thread_attached, focus_raised, attaches, detaches >>
    /\ OnlyAttach

\* the verification: the read after the focus calls, ShowWindow(SW_SHOW)
\* and the read after it, GetWindowRect before return True
attach_verify ==
    /\ attach_pc = "verify"
    /\ \E matched \in BOOLEAN, raised \in BOOLEAN :
         IF matched /\ ~raised
         THEN /\ attach_pc' = "done"
              /\ attach_ret' = "True"
              /\ UNCHANGED attach_attempt
         ELSE EndOfAttachPass
    /\ UNCHANGED << fg_thread, thread_attached, focus_raised, attaches, detaches >>
    /\ OnlyAttach

NextAttach ==
    \/ attach_call
    \/ attach_check
    \/ attach_threads
    \/ attach_thread_input
    \/ attach_focus_calls
    \/ detach_thread_input
    \/ attach_set_foreground
    \/ attach_fallback
    \/ attach_verify

SpecAttach == InitAttach /\ [][NextAttach]_vars

\* C31: whenever _ensure_foreground has attached the thread inputs, a
\* detach is issued before the call goes on to the fallback, to the
\* verification or to a return, also when a focus call raised; no return
\* leaves the thread inputs attached.
C31_DetachedBeforeVerification ==
    attach_pc \notin {"focus", "detach"} =>
        /\ thread_attached = NoThread
        /\ detaches = attaches

\* a focus call raised in each of three passes and each time the inputs
\* were detached
C31_Witness ==
    /\ attach_pc = "done"
    /\ attach_ret = "False"
    /\ attaches = ensure_foreground_attempts
    /\ detaches = ensure_foreground_attempts

\* C32: _safe_click never raises; it issues no click when _ensure_foreground
\* returned False, and it returns True exactly when the click primitive was
\* called and did not raise.
C32_SafeClickNeverRaises ==
    \A i \in 1..Len(click_log) :
        /\ click_log[i].ret \in {"True", "False"}
        /\ ~click_log[i].foreground => ~click_log[i].clicked
        /\ click_log[i].ret = "True" <=> (click_log[i].clicked /\ ~click_log[i].raised)

\* one call gave up without a click, another had its click raise
C32_Witness ==
    \E i, j \in 1..Len(click_log) :
        /\ ~click_log[i].foreground
        /\ click_log[j].raised
        /\ click_log[j].ret = "False"

(***************************************************************************)
(* step7_send_prompt: the probes, each with its readiness read, the clear, *)
(* the paste, _verify_prompt_entry and the Enter.  A key stroke sent by    *)
(* send_keys reaches the input box or not: the focus is checked before the *)
(* key is sent, not while it is sent.                                      *)
(***************************************************************************)
step7_probes == 8

PromptText == <<"Fix", " ", "the", " ", "build">>
StrayText == <<"chaos", " ", "test", " ">>
NotVerified == <<"not verified">>

\* what the input box may hold when the step begins
StrayInputs == { <<>>, StrayText }

InitSend ==
    /\ send_pc = "idle"
    /\ probe = 0
    /\ verify_entry \in BOOLEAN
    /\ input_text \in StrayInputs
    /\ clipboard_text \in { <<>>, StrayText }
    /\ probe_state = "none"
    /\ verified_input = NotVerified
    /\ enter_log = <<>>
    /\ send_ret = "none"
    /\ Parked({"send"})

\* step7_send_prompt(prompt, verify_entry), past its viability and focus checks
send_prompt_call ==
    /\ send_pc = "idle"
    /\ send_pc' = "probe"
    /\ UNCHANGED << probe, verify_entry, input_text, clipboard_text, probe_state,
                    verified_input, enter_log, send_ret >>
    /\ OnlySend

\* continue, or the end of the loop body: the next probe
NextProbe ==
    /\ probe' = probe + 1
    /\ send_pc' = "probe"
    /\ probe_state' = "none"
    /\ verified_input' = NotVerified

\* Ctrl+A, Ctrl+C: a selection that is not empty replaces the clipboard
Copied(delivered) ==
    IF delivered /\ input_text # <<>> THEN input_text ELSE clipboard_text

\* for attempt in range(max_attempts): _ensure_foreground, the Ctrl+C probe
\* and if not self._is_generating(); after the loop: return False
send_probe ==
    /\ send_pc = "probe"
    /\ IF probe >= step7_probes
       THEN /\ send_pc' = "done"
            /\ send_ret' = "False"
            /\ UNCHANGED << probe, probe_state, verified_input >>
       ELSE \E in_front \in BOOLEAN, state \in {"generating", "ready", "idle", "unknown"} :
              /\ send_ret' = send_ret
              /\ IF in_front /\ state # "generating"
                 THEN /\ send_pc' = "clear"
                      /\ probe_state' = state
                      /\ UNCHANGED << probe, verified_input >>
                 ELSE NextProbe
    /\ UNCHANGED << verify_entry, input_text, clipboard_text, enter_log >>
    /\ OnlySend

\* Step 1: _ensure_foreground, Ctrl+A, Delete
send_clear ==
    /\ send_pc = "clear"
    /\ \E in_front \in BOOLEAN, delivered \in BOOLEAN :
         IF in_front
         THEN /\ input_text' = IF delivered THEN <<>> ELSE input_text
              /\ send_pc' = "paste"
              /\ UNCHANGED << probe, probe_state, verified_input >>
         ELSE /\ NextProbe
              /\ UNCHANGED input_text
    /\ UNCHANGED << verify_entry, clipboard_text, enter_log, send_ret >>
    /\ OnlySend

\* Step 2: _ensure_foreground, pyperclip.copy(prompt), Ctrl+V
send_paste ==
    /\ send_pc = "paste"
    /\ \E in_front \in BOOLEAN, delivered \in BOOLEAN :
         IF in_front
         THEN /\ clipboard_text' = PromptText
              /\ input_text' = IF delivered THEN input_text \o PromptText ELSE input_text
              /\ send_pc' = IF verify_entry THEN "verify" ELSE "enter"
              /\ UNCHANGED << probe, probe_state, verified_input >>
         ELSE /\ NextProbe
              /\ UNCHANGED << clipboard_text, input_text >>
    /\ UNCHANGED << verify_entry, enter_log, send_ret >>
    /\ OnlySend

\* _verify_prompt_entry: current_text = pyperclip.paste();
\* current_clean == expected_clean
prompt_entry_verified(current_text) ==
    Strip(current_text) = Strip(PromptText)

\* Step 3: if not self._verify_prompt_entry(prompt): Ctrl+A, Delete, continue.
\* _verify_prompt_entry sends Ctrl+A, Ctrl+C and compares the clipboard with
\* the prompt, in up to three attempts that need the window in front.
send_verify ==
    /\ send_pc = "verify"
    /\ \E in_front \in BOOLEAN, delivered \in BOOLEAN, cleared \in BOOLEAN :
         IF in_front
         THEN /\ clipboard_text' = Copied(delivered)
              /\ IF prompt_entry_verified(Copied(delivered))
                 THEN /\ send_pc' = "enter"
                      /\ verified_input' = input_text
                      /\ UNCHANGED << probe, probe_state, input_text >>
                 ELSE /\ NextProbe
                      /\ input_text' = IF cleared THEN <<>> ELSE input_text
         ELSE /\ NextProbe
              /\ input_text' = IF cleared THEN <<>> ELSE input_text
              /\ UNCHANGED clipboard_text
    /\ UNCHANGED << verify_entry, enter_log, send_ret >>
    /\ OnlySend

\* Step 4: _ensure_foreground, send_keys('{ENTER}'), return True
send_enter ==
    /\ send_pc = "enter"
    /\ \E in_front \in BOOLEAN :
         IF in_front
         THEN /\ enter_log' = Append(enter_log,
                     [probe |-> probe, state |-> probe_state,
                      verified |-> verified_input])
              /\ send_pc' = "done"
              /\ send_ret' = "True"
              /\ UNCHANGED << probe, probe_state, verified_input >>
         ELSE /\ NextProbe
              /\ UNCHANGED << enter_log, send_ret >>
    /\ UNCHANGED << verify_entry, input_text, clipboard_text >>
    /\ OnlySend

NextSend ==
    \/ send_prompt_call
    \/ send_probe
    \/ send_clear
    \/ send_paste
    \/ send_verify
    \/ send_enter

SpecSend == InitSend /\ [][NextSend]_vars

\* C33: step7_send_prompt sends Enter at most once per call, only in a
\* probe whose button state read was not generating and, when verify_entry
\* is true, only after _verify_prompt_entry confirmed in that probe that the
\* input content equals the prompt; the step makes at most 8 probes.
C33_SubmitOnlyAfterVerifiedEntry ==
    /\ Len(enter_log) <= 1
    /\ probe <= step7_probes
    /\ \A i \in 1..Len(enter_log) :
          /\ enter_log[i].state \notin {"none", "generating"}
          /\ enter_log[i].probe < step7_probes
          /\ verify_entry => Strip(enter_log[i].verified) = Strip(PromptText)

(***************************************************************************)
(* step10_copy_response: the outer attempts and, in each, the Shift+Tab    *)
(* navigation with the name of the focused button read before each Enter,  *)
(* and the UIA fallback.  The controls are given in the order Shift+Tab    *)
(* reaches them from the input box.                                        *)
(***************************************************************************)
CopyButton == <<"Copy">>
ThumbsUp == <<"Thumb", "s", " ", "up">>
ThumbsDown == <<"Thumb", "s", " ", "down">>
RegenerateButton == <<"Regenerate">>
MoreButton == <<"More", " ", "actions">>
ShareButton == <<"Share">>

\* the layouts of the toolbar under the last response
Toolbars ==
    { << MoreButton, RegenerateButton, ThumbsDown, ThumbsUp, CopyButton >>,
      << ShareButton, MoreButton, RegenerateButton, ThumbsDown, ThumbsUp, CopyButton >>,
      << RegenerateButton, ThumbsDown, ThumbsUp, CopyButton >> }

first_tabs == 5
max_extra_tabs == 6
max_outer_attempts == 3

\* dangerous = ['thumb', 'dislike', 'like', 'refresh', 'regenerate', 'more']
dangerous ==
    { <<"thumb">>, <<"dis", "like">>, <<"like">>, <<"refresh">>, <<"regenerate">>, <<"more">> }

\* 'copy' in btn_name
IsCopy(name) == Contains(name, <<"copy">>)

\* any(d in btn_name for d in dangerous)
IsDangerous(name) == \E d \in dangerous : Contains(name, d)

\* the control that holds the focus: 0 is the input box, a position past
\* the toolbar is the text of the conversation
ControlAt(position) ==
    IF position \in 1..Len(toolbar) THEN toolbar[position] ELSE <<>>

\* get_focused_button_name(): name.lower() of a focused button, else ''
get_focused_button_name(position) == Lower(ControlAt(position))

\* n times Shift+Tab
ShiftTab(position, n) ==
    IF position + n > Len(toolbar) THEN Len(toolbar) + 1 ELSE position + n

InitCopy ==
    /\ copy_pc = "outer"
    /\ outer_attempt = 1
    /\ extra_tab = 0
    /\ toolbar \in Toolbars
    /\ focus \in 0..1
    /\ btn_name = <<>>
    /\ activations = {}
    /\ copy_ret = "none"
    /\ Parked({"copy"})

\* inner_copy_attempt returned '': the backoff and the next outer attempt
EndOfCopyAttempt ==
    /\ outer_attempt' = outer_attempt + 1
    /\ copy_pc' = "outer"

\* for attempt in range(1, max_outer_attempts + 1): _ensure_foreground, or
\* return '' after the loop
copy_outer ==
    /\ copy_pc = "outer"
    /\ IF outer_attempt > max_outer_attempts
       THEN /\ copy_pc' = "done"
            /\ copy_ret' = "empty"
            /\ UNCHANGED outer_attempt
       ELSE /\ \E in_front \in BOOLEAN :
                 IF in_front
                 THEN copy_pc' = "anchor" /\ UNCHANGED outer_attempt
                 ELSE EndOfCopyAttempt
            /\ UNCHANGED copy_ret
    /\ UNCHANGED << extra_tab, toolbar, focus, btn_name, activations >>
    /\ OnlyCopy

\* the scroll to the bottom, the anchor click on the input box, five times
\* Shift+Tab and the read of the focused button's name
copy_anchor_and_tabs ==
    /\ copy_pc = "anchor"
    /\ \E clicked \in BOOLEAN, in_front \in BOOLEAN :
         IF ~in_front
         THEN /\ EndOfCopyAttempt
              /\ focus' = IF clicked THEN 0 ELSE focus
              /\ UNCHANGED << btn_name, extra_tab >>
         ELSE LET anchor == IF clicked THEN 0 ELSE focus
                  landed == ShiftTab(anchor, first_tabs)
              IN  /\ focus' = landed
                  /\ btn_name' = get_focused_button_name(landed)
                  /\ extra_tab' = 0
                  /\ copy_pc' = IF IsCopy(get_focused_button_name(landed))
                                THEN "enter_first" ELSE "extra"
                  /\ UNCHANGED outer_attempt
    /\ UNCHANGED << toolbar, activations, copy_ret >>
    /\ OnlyCopy

\* if self._ensure_foreground(): pyperclip.copy(''); send_keys('{ENTER}'),
\* which activates the control that holds the focus when the key arrives
copy_enter ==
    /\ copy_pc \in {"enter_first", "enter_extra"}
    /\ \E in_front \in BOOLEAN, got \in BOOLEAN :
         IF in_front
         THEN /\ activations' = activations \cup
                     { [read |-> btn_name, control |-> get_focused_button_name(focus)] }
              /\ IF got
                 THEN copy_pc' = "done" /\ copy_ret' = "response"
                 ELSE copy_pc' = "extra" /\ UNCHANGED copy_ret
         ELSE /\ copy_pc' = IF copy_pc = "enter_first" THEN "extra" ELSE "uia"
              /\ UNCHANGED << activations, copy_ret >>
    /\ UNCHANGED << outer_attempt, extra_tab, toolbar, focus, btn_name >>
    /\ OnlyCopy

\* for i in range(max_extra_tabs): Shift+Tab, the read of the name, and the
\* branch on it; before the first one, _ensure_foreground or return ''
copy_extra_tab ==
    /\ copy_pc = "extra"
    /\ IF extra_tab >= max_extra_tabs
       THEN /\ copy_pc' = "uia"
            /\ UNCHANGED << outer_attempt, extra_tab, focus, btn_name >>
       ELSE \E in_front \in BOOLEAN :
              IF extra_tab = 0 /\ ~in_front
              THEN /\ EndOfCopyAttempt
                   /\ UNCHANGED << extra_tab, focus, btn_name >>
              ELSE LET landed == ShiftTab(focus, 1)
                       name == get_focused_button_name(landed)
                   IN  /\ focus' = landed
                       /\ btn_name' = name
                       /\ extra_tab' = extra_tab + 1
                       /\ copy_pc' = IF IsCopy(name) THEN "enter_extra"
                                     ELSE IF IsDangerous(name) THEN "extra"
                                     ELSE IF name = <<>> THEN "uia"
                                     ELSE "extra"
                       /\ UNCHANGED outer_attempt
    /\ UNCHANGED << toolbar, activations, copy_ret >>
    /\ OnlyCopy

\* the UIA fallback: invoke() or click_input() on each button whose name
\* contains 'copy', then Ctrl+Shift+C, then return ''
copy_uia_invoke ==
    /\ copy_pc = "uia"
    /\ \E connected \in BOOLEAN, got \in BOOLEAN :
         /\ activations' = IF connected
                           THEN activations \cup
                                { [read |-> Lower(toolbar[i]), control |-> Lower(toolbar[i])] :
                                    i \in { j \in 1..Len(toolbar) : IsCopy(Lower(toolbar[j])) } }
                           ELSE activations
         /\ IF got
            THEN copy_pc' = "done" /\ copy_ret' = "response" /\ UNCHANGED outer_attempt
            ELSE EndOfCopyAttempt /\ UNCHANGED copy_ret
    /\ UNCHANGED << extra_tab, toolbar, focus, btn_name >>
    /\ OnlyCopy

\* another process or the user moves the keyboard focus between the read
\* of the name and the Enter
focus_moved ==
    /\ copy_pc \in {"enter_first", "enter_extra"}
    /\ focus' \in (0..(Len(toolbar) + 1)) \ {focus}
    /\ UNCHANGED << copy_pc, outer_attempt, extra_tab, toolbar, btn_name, activations,
                    copy_ret >>
    /\ OnlyCopy

NextCopy ==
    \/ copy_outer
    \/ copy_anchor_and_tabs
    \/ copy_enter
    \/ copy_extra_tab
    \/ copy_uia_invoke
    \/ focus_moved

SpecCopy == InitCopy /\ [][NextCopy]_vars

\* C34: step10_copy_response activates a control only when the read of that
\* control's name just before contained 'copy'; a focused control with a
\* dangerous name that does not contain 'copy' is never activated.
C34_OnlyCopyIsActivated ==
    \A a \in activations :
        /\ IsCopy(a.read)
        /\ a.control = a.read
        /\ ~(IsDangerous(a.control) /\ ~IsCopy(a.control))

(***************************************************************************)
(* step5_click_project with the texts it compares: the project name, the   *)
(* window title read after the click and, in _verify_sidebar_selection,    *)
(* the OCR text nearest to the highlighted row.                            *)
(***************************************************************************)
TitleSuffix == <<" ", "-", " ", "ChatGPT">>

ProjectNames == { Codex, Library }

\* what GetWindowText returns after the click
ProjectTitles ==
    { <<"ChatGPT">>, Codex \o TitleSuffix, Lower(Codex) \o TitleSuffix,
      Library \o TitleSuffix }

\* best_text of _verify_sidebar_selection, None when OCR found nothing
NearestTexts == { None } \cup { [text |-> t] : t \in { Codex, Code, Libary, Search } }

\* project_name.lower() in title.lower()
title_match(name, text) == Contains(Lower(text), Lower(name))

\* _verify_sidebar_selection: a highlight, a text next to it, and
\* match_score >= 0.7 or target.lower() in best_text.lower()
_verify_sidebar_selection(target, hi, best_text) ==
    /\ hi
    /\ best_text # None
    /\ best_text.text # <<>>
    /\ \/ RatioGE(similarity_ratio(Lower(target), Lower(best_text.text)), Ratio(7, 10))
       \/ Contains(Lower(best_text.text), Lower(target))

NoScan == [found |-> FALSE, title |-> <<>>, hi |-> FALSE, best_text |-> None]

InitProject ==
    /\ s5_pc = "viable"
    /\ s5_project \in ProjectNames
    /\ s5_attempt = 0
    /\ s5_scans = 0
    /\ s5_log = NoScan
    /\ s5_ret = "none"
    /\ Parked({"project"})

\* continue, or the end of the loop body: the next value of attempt
NextScanAttempt ==
    /\ s5_attempt' = s5_attempt + 1
    /\ s5_pc' = "foreground"

\* if result: the checks after the click; otherwise the next attempt
AfterScan_unchecked(found) ==
    /\ s5_pc' = "title"
    /\ UNCHANGED s5_attempt
AfterScan(found) ==
    IF found
    THEN /\ s5_pc' = "title"
         /\ UNCHANGED s5_attempt
    ELSE NextScanAttempt

\* if not self._ensure_window_viable("step5"): return False
step5_viable ==
    /\ s5_pc = "viable"
    /\ \E viable \in BOOLEAN :
         IF viable
         THEN s5_pc' = "foreground" /\ UNCHANGED s5_ret
         ELSE s5_pc' = "done" /\ s5_ret' = "False"
    /\ UNCHANGED << s5_project, s5_attempt, s5_scans, s5_log >>
    /\ OnlyProject

\* for attempt in range(max_attempts): if not self._ensure_foreground():
\* continue; after the loop return False
step5_foreground ==
    /\ s5_pc = "foreground"
    /\ IF s5_attempt >= step5_attempts
       THEN /\ s5_pc' = "done"
            /\ s5_ret' = "False"
            /\ UNCHANGED << s5_attempt, s5_log >>
       ELSE /\ \E in_front \in BOOLEAN :
                 IF in_front
                 THEN s5_pc' = "scan" /\ UNCHANGED s5_attempt
                 ELSE NextScanAttempt
            /\ s5_log' = NoScan
            /\ UNCHANGED s5_ret
    /\ UNCHANGED << s5_project, s5_scans >>
    /\ OnlyProject

\* result = self._find_and_click_sidebar_item(project_name, ...)
step5_scan_and_click ==
    /\ s5_pc = "scan"
    /\ \E found \in BOOLEAN :
         /\ s5_log' = [s5_log EXCEPT !.found = found]
         /\ AfterScan(found)
    /\ s5_scans' = s5_scans + 1
    /\ UNCHANGED << s5_project, s5_ret >>
    /\ OnlyProject

\* title = win32gui.GetWindowText(self.hwnd); a match returns True
step5_title ==
    /\ s5_pc = "title"
    /\ \E text \in ProjectTitles :
         /\ s5_log' = [s5_log EXCEPT !.title = text]
         /\ IF title_match(s5_project, text)
            THEN s5_pc' = "done" /\ s5_ret' = "True"
            ELSE s5_pc' = "verify" /\ UNCHANGED s5_ret
    /\ UNCHANGED << s5_project, s5_attempt, s5_scans >>
    /\ OnlyProject

\* if self._verify_sidebar_selection(project_name): return True; else the
\* next attempt
step5_verify ==
    /\ s5_pc = "verify"
    /\ \E hi \in BOOLEAN, best_text \in NearestTexts :
         /\ s5_log' = [s5_log EXCEPT !.hi = hi, !.best_text = best_text]
         /\ IF _verify_sidebar_selection(s5_project, hi, best_text)
            THEN s5_pc' = "done" /\ s5_ret' = "True" /\ UNCHANGED s5_attempt
            ELSE NextScanAttempt /\ UNCHANGED s5_ret
    /\ UNCHANGED << s5_project, s5_scans >>
    /\ OnlyProject

NextProject ==
    \/ step5_viable
    \/ step5_foreground
    \/ step5_scan_and_click
    \/ step5_title
    \/ step5_verify

SpecProject == InitProject /\ [][NextProject]_vars

EmptyStates == <<"Empty", " ", "states">>
TooShortStories == <<"Too", " ", "short", " ", "stories">>
TimeoutNotes == <<"Timeout", " ", "notes">>
FocusGroup == <<"Focus", " ", "group">>

\* names a caller may give to a project or to a conversation
SidebarNames ==
    { Codex, Library, EnsignKarl, SearchChats, NewChat, EmptyStates, TooShortStories,
      TimeoutNotes, FocusGroup }

InitReason ==
    /\ reason_pc = "flow"
    /\ reason_project \in SidebarNames
    /\ reason_conversation \in SidebarNames
    /\ reason_result = NoResult
    /\ reason_code = "none"
    /\ Parked({"reason"})

\* execute_full_flow: step 5 or step 6 fails and the result names what was
\* not found
navigation_fails ==
    /\ reason_pc = "flow"
    /\ \E failed_step \in {5, 6} :
         reason_result' =
             IF failed_step = 5
             THEN FlowFailure(ErrProject(reason_project), 5)
             ELSE FlowFailure(ErrConversation(reason_conversation), 6)
    /\ reason_pc' = "derive"
    /\ UNCHANGED << reason_project, reason_conversation, reason_code >>
    /\ OnlyReason

\* escalate: error_reason = self._derive_error_reason(last_step, last_error)
derive_reason ==
    /\ reason_pc = "derive"
    /\ reason_code' = _derive_error_reason(reason_result.failed_step, reason_result.error)
    /\ reason_pc' = "derived"
    /\ UNCHANGED << reason_project, reason_conversation, reason_result >>
    /\ OnlyReason

NextReason ==
    \/ navigation_fails
    \/ derive_reason

SpecReason == InitReason /\ [][NextReason]_vars

\* C36: whatever the project and the conversation are called, a failure at
\* step 5 gets the reason project_not_found and a failure at step 6 gets
\* conversation_not_found.
C36_NavigationReasonByStep ==
    reason_pc = "derived" =>
        /\ reason_result.failed_step = 5 => reason_code = "project_not_found"
        /\ reason_result.failed_step = 6 => reason_code = "conversation_not_found"

(***************************************************************************)
(* _find_and_click_sidebar_item from the first OCR match on: the click on  *)
(* the match, the highlight detection after it and the corrective click.   *)
(* Positions are screen y coordinates in pixels.                           *)
(***************************************************************************)
row_height == 35
highlight_tolerance == 18
corrective_step == 28

\* click_y of the matches of one OCR pass, top to bottom
MatchRows == { <<150>>, <<185>>, <<150, 185>>, <<185, 220>>, <<150, 220>> }

\* how far from the click the centre of the highlighted row is reported
HighlightDeltas ==
    { 0 - row_height, 0 - (highlight_tolerance + 1), 0 - highlight_tolerance, 0,
      highlight_tolerance, highlight_tolerance + 1, row_height }

\* hi of detect_highlighted_item: None, or the screen y of the row's centre
Highlights(y) == { None } \cup { [screen_y |-> y + d] : d \in HighlightDeltas }

abs(n) == IF n < 0 THEN 0 - n ELSE n

\* if hi and 'screen_coords' in hi: ... if abs(delta_y) > 18
correction_needed(hi, y) ==
    /\ hi # None
    /\ abs(hi.screen_y - y) > highlight_tolerance

\* corrective_y = click_y - step if delta_y > 0 else click_y + step
corrective_y_one_row(y, delta_y) ==
    IF delta_y > 0 THEN y - row_height ELSE y + row_height
corrective_y(y, delta_y) ==
    IF delta_y > 0 THEN y - corrective_step ELSE y + corrective_step

InitCorrective ==
    /\ corr_pc = "match"
    /\ matches_y \in MatchRows
    /\ match_idx = 1
    /\ click_y = 0
    /\ highlight = None
    /\ sidebar_clicks = << >>
    /\ corrective_calls = 0
    /\ corr_ret = "none"
    /\ Parked({"corrective"})

\* a match of the OCR pass: _safe_click on its centre, and on failure the
\* next match; without a clicked match the scan goes on to scroll
click_match ==
    /\ corr_pc = "match"
    /\ IF match_idx > Len(matches_y)
       THEN /\ corr_pc' = "done"
            /\ corr_ret' = "scroll"
            /\ UNCHANGED << match_idx, click_y, sidebar_clicks >>
       ELSE /\ click_y' = matches_y[match_idx]
            /\ \E clicked \in BOOLEAN :
                 IF clicked
                 THEN /\ sidebar_clicks' =
                            Append(sidebar_clicks,
                                   [kind |-> "item", y |-> matches_y[match_idx],
                                    item |-> match_idx])
                      /\ corr_pc' = "detect"
                      /\ UNCHANGED match_idx
                 ELSE /\ match_idx' = match_idx + 1
                      /\ UNCHANGED << sidebar_clicks, corr_pc >>
            /\ UNCHANGED corr_ret
    /\ UNCHANGED << matches_y, highlight, corrective_calls >>
    /\ OnlyCorrective

\* hi = detect_highlighted_item(self.hwnd), None when it raises or finds
\* nothing; an aligned or missing highlight returns True
detect_highlight ==
    /\ corr_pc = "detect"
    /\ \E hi \in Highlights(click_y) :
         /\ highlight' = hi
         /\ IF correction_needed(hi, click_y)
            THEN corr_pc' = "correct" /\ UNCHANGED corr_ret
            ELSE corr_pc' = "done" /\ corr_ret' = "True"
    /\ UNCHANGED << matches_y, match_idx, click_y, sidebar_clicks, corrective_calls >>
    /\ OnlyCorrective

\* self._safe_click(click_x, corrective_y, ...), then return True whether
\* or not the click was made
corrective_click ==
    /\ corr_pc = "correct"
    /\ corrective_calls' = corrective_calls + 1
    /\ \E clicked \in BOOLEAN :
         sidebar_clicks' =
             IF clicked
             THEN Append(sidebar_clicks,
                         [kind |-> "corrective",
                          y |-> corrective_y(click_y, highlight.screen_y - click_y),
                          item |-> match_idx])
             ELSE sidebar_clicks
    /\ corr_pc' = "done"
    /\ corr_ret' = "True"
    /\ UNCHANGED << matches_y, match_idx, click_y, highlight >>
    /\ OnlyCorrective

NextCorrective ==
    \/ click_match
    \/ detect_highlight
    \/ corrective_click

SpecCorrective == InitCorrective /\ [][NextCorrective]_vars

CorrectiveClicks ==
    { i \in 1..Len(sidebar_clicks) : sidebar_clicks[i].kind = "corrective" }

\* C37: after a sidebar scan-and-click at most one corrective click is made
\* per located match, it is issued exactly when a highlight is detected
\* whose centre is more than 18 px from the click point, and it lies one
\* row height above or below the original click point.
C37_CorrectiveClickOneRowAway ==
    /\ Cardinality(CorrectiveClicks) <= 1
    /\ corrective_calls <= 1
    /\ corr_ret = "True" =>
          (corrective_calls = 1 <=>
              (highlight # None /\ abs(highlight.screen_y - click_y) > highlight_tolerance))
    /\ \A i \in CorrectiveClicks :
          abs(sidebar_clicks[i].y - matches_y[sidebar_clicks[i].item]) = row_height

\* C37 as the code has it: the corrective click is 28 px from the original
\* click point, above it when the highlight is below and below it otherwise.
C37_CorrectiveClickOneStepAway ==
    /\ Cardinality(CorrectiveClicks) <= 1
    /\ corrective_calls <= 1
    /\ corr_ret = "True" =>
          (corrective_calls = 1 <=>
              (highlight # None /\ abs(highlight.screen_y - click_y) > highlight_tolerance))
    /\ \A i \in CorrectiveClicks :
          /\ i > 1
          /\ sidebar_clicks[i - 1].kind = "item"
          /\ sidebar_clicks[i - 1].item = sidebar_clicks[i].item
          /\ highlight # None
          /\ sidebar_clicks[i].y =
                IF highlight.screen_y > sidebar_clicks[i - 1].y
                THEN sidebar_clicks[i - 1].y - corrective_step
                ELSE sidebar_clicks[i - 1].y + corrective_step

\* the second match was clicked, the row below it lit up and the corrective
\* click went in above the click point
C37_Witness ==
    /\ corr_pc = "done"
    /\ match_idx = 2
    /\ Len(sidebar_clicks) = 2
    /\ sidebar_clicks[2].kind = "corrective"
    /\ sidebar_clicks[2].y < sidebar_clicks[1].y

(***************************************************************************)
(* ocr_extraction with both calls of start_ocr_preload: the one at the end *)
(* of ocr_extraction, run when robust_flow imports the module, and the one *)
(* robust_flow makes after the import.  Each call may start a warm-up      *)
(* thread; the callers of get_ocr are those of the component above.        *)
(***************************************************************************)
\* the threads start_ocr_preload may start, and the importing thread
WarmThreads == { PreloadThread, PreloadThread + 1 }
MainThread == PreloadThread + 2

\* the modules whose import calls start_ocr_preload, in the order of the calls
ImportOrder == << "ocr_extraction", "robust_flow", "done" >>

NextImport(module) ==
    IF module = ImportOrder[1] THEN ImportOrder[2] ELSE ImportOrder[3]

\* if _ocr_instance is not None or _ocr_loading: return
already_loading_flag_ignored(instance, loading) == instance # NoOcr
already_loading(instance, loading) == instance # NoOcr \/ loading

\* the warm-up threads that were started and have not finished
RunningWarmUps == { t \in WarmThreads : warm_pc[t] \notin {"unstarted", "done"} }

InitWarm ==
    /\ _ocr_instance = NoOcr
    /\ _ocr_loading = FALSE
    /\ _ocr_lock = Unlocked
    /\ preload_pc = "parked"
    /\ get_pc = [c \in OcrCallers |-> "idle"]
    /\ get_ret = [c \in OcrCallers |-> "none"]
    /\ published = <<>>
    /\ importing = ImportOrder[1]
    /\ start_pc = "call"
    /\ warm_pc = [t \in WarmThreads |-> "unstarted"]
    /\ Parked({"ocr", "warm"})

OnlyOcrAndWarm == Frame({"ocr", "warm"})

\* start_ocr_preload: with _ocr_lock
start_ocr_preload_acquire ==
    /\ importing # "done"
    /\ start_pc = "call"
    /\ _ocr_lock = Unlocked
    /\ _ocr_lock' = MainThread
    /\ start_pc' = "locked"
    /\ UNCHANGED << _ocr_instance, _ocr_loading, preload_pc, get_pc, get_ret, published,
                    importing, warm_pc >>
    /\ OnlyOcrAndWarm

\* start_ocr_preload, under the lock: return if loaded or loading, else
\* _ocr_loading = True
start_ocr_preload_locked ==
    /\ start_pc = "locked"
    /\ _ocr_lock' = Unlocked
    /\ IF already_loading(_ocr_instance, _ocr_loading)
       THEN /\ importing' = NextImport(importing)
            /\ start_pc' = "call"
            /\ UNCHANGED _ocr_loading
       ELSE /\ _ocr_loading' = TRUE
            /\ start_pc' = "thread"
            /\ UNCHANGED importing
    /\ UNCHANGED << _ocr_instance, preload_pc, get_pc, get_ret, published, warm_pc >>
    /\ OnlyOcrAndWarm

\* start_ocr_preload: thread = threading.Thread(target=_preload_ocr);
\* thread.start()
start_ocr_preload_thread ==
    /\ start_pc = "thread"
    /\ \E t \in WarmThreads :
         /\ warm_pc[t] = "unstarted"
         /\ \A u \in WarmThreads : u < t => warm_pc[u] # "unstarted"
         /\ warm_pc' = [warm_pc EXCEPT ![t] = "construct"]
    /\ importing' = NextImport(importing)
    /\ start_pc' = "call"
    /\ UNCHANGED ocrVars
    /\ OnlyOcrAndWarm

\* _preload_ocr: instance = PaddleOCR(...); an exception goes to "except: pass"
warm_construct(t) ==
    /\ warm_pc[t] = "construct"
    /\ \E raised \in BOOLEAN :
         warm_pc' = [warm_pc EXCEPT ![t] = IF raised THEN "finally" ELSE "acquire"]
    /\ UNCHANGED << ocrVars, importing, start_pc >>
    /\ OnlyOcrAndWarm

\* _preload_ocr: with _ocr_lock
warm_acquire(t) ==
    /\ warm_pc[t] = "acquire"
    /\ _ocr_lock = Unlocked
    /\ _ocr_lock' = t
    /\ warm_pc' = [warm_pc EXCEPT ![t] = "store"]
    /\ UNCHANGED << _ocr_instance, _ocr_loading, preload_pc, get_pc, get_ret, published,
                    importing, start_pc >>
    /\ OnlyOcrAndWarm

\* _preload_ocr: if _ocr_instance is None: _ocr_instance = instance
warm_store(t) ==
    /\ warm_pc[t] = "store"
    /\ _ocr_instance' = IF _ocr_instance = NoOcr THEN Engine ELSE _ocr_instance
    /\ published' = IF _ocr_instance = NoOcr THEN Append(published, Engine) ELSE published
    /\ _ocr_lock' = Unlocked
    /\ warm_pc' = [warm_pc EXCEPT ![t] = "finally"]
    /\ UNCHANGED << _ocr_loading, preload_pc, get_pc, get_ret, importing, start_pc >>
    /\ OnlyOcrAndWarm

\* variant: the thread ends without resetting _ocr_loading
warm_finally_flag_kept(t) ==
    /\ warm_pc[t] = "finally"
    /\ warm_pc' = [warm_pc EXCEPT ![t] = "done"]
    /\ UNCHANGED << ocrVars, importing, start_pc >>
    /\ OnlyOcrAndWarm

\* _preload_ocr: finally: _ocr_loading = False, the last statement of the
\* thread
warm_finally(t) ==
    /\ warm_pc[t] = "finally"
    /\ _ocr_loading' = FALSE
    /\ warm_pc' = [warm_pc EXCEPT ![t] = "done"]
    /\ UNCHANGED << _ocr_instance, _ocr_lock, preload_pc, get_pc, get_ret, published,
                    importing, start_pc >>
    /\ OnlyOcrAndWarm

NextWarm ==
    \/ start_ocr_preload_acquire
    \/ start_ocr_preload_locked
    \/ start_ocr_preload_thread
    \/ \E t \in WarmThreads : warm_construct(t)
    \/ \E t \in WarmThreads : warm_acquire(t)
    \/ \E t \in WarmThreads : warm_store(t)
    \/ \E t \in WarmThreads : warm_finally(t)
    \/ \E c \in OcrCallers : get_ocr_call(c)
    \/ \E c \in OcrCallers : get_ocr_acquire(c)
    \/ \E c \in OcrCallers : get_ocr_locked(c)
    \/ \E c \in OcrCallers : get_ocr_wait(c)

SpecWarm == InitWarm /\ [][NextWarm]_vars

\* C38: in every interleaving of the two start_ocr_preload calls, the
\* warm-up threads and the callers of get_ocr, at most one engine is ever
\* stored in _ocr_instance, a stored engine is never replaced, and at most
\* one warm-up thread runs at a time.
C38_OneEngineOneWarmUp ==
    /\ Len(published) <= 1
    /\ _ocr_instance = (IF published = <<>> THEN NoOcr ELSE published[1])
    /\ Cardinality(RunningWarmUps) <= 1

\* the first warm-up failed, the call made by robust_flow started a second
\* one, and one engine was stored while a caller of get_ocr was competing
C38_Witness ==
    /\ \A t \in WarmThreads : warm_pc[t] = "done"
    /\ importing = "done"
    /\ Len(published) = 1
    /\ \E c \in OcrCallers : get_pc[c] = "returned"

\* the scheduler runs every thread that can take a step: the importing
\* thread, the warm-up threads, and a caller once it is inside get_ocr
WarmFairness ==
    /\ WF_vars(start_ocr_preload_acquire)
    /\ WF_vars(start_ocr_preload_locked)
    /\ WF_vars(start_ocr_preload_thread)
    /\ \A t \in WarmThreads :
         /\ WF_vars(warm_construct(t))
         /\ WF_vars(warm_acquire(t))
         /\ WF_vars(warm_store(t))
         /\ WF_vars(warm_finally(t))
    /\ \A c \in OcrCallers :
         /\ WF_vars(get_ocr_acquire(c))
         /\ WF_vars(get_ocr_locked(c))
         /\ WF_vars(get_ocr_wait(c))

SpecWarmFair == InitWarm /\ [][NextWarm]_vars /\ WarmFairness

\* C39: under fair scheduling a caller that is in the wait loop of get_ocr
\* leaves it and returns, whether the warm-up stored an engine or failed,
\* and every call of get_ocr comes to an end.
C39_GetOcrEventuallyReturns ==
    \A c \in OcrCallers :
        /\ (get_pc[c] = "wait") ~> (get_pc[c] = "returned")
        /\ (get_pc[c] \in {"acquire", "locked"}) ~> (get_pc[c] \in {"returned", "raised"})

\* a caller waited for a warm-up that failed and came back from the loop
C39_Witness ==
    \E c \in OcrCallers :
        /\ get_pc[c] = "returned"
        /\ get_ret[c] = NoOcr
        /\ \E t \in WarmThreads : warm_pc[t] = "done"

(***************************************************************************)
(* The loops of escalate and execute_full_flow without the texts: which    *)
(* step runs next, the loop variables, and the sleeps of the polling loop  *)
(* of the step being run.  A step returns True or False; a step whose loop *)
(* is "while (time.time() - start) < timeout" may go round and sleep, and  *)
(* the clock advances on every sleep.                                      *)
(***************************************************************************)
\* the sleeps after which the timeout of a polling loop has passed
MaxSleeps == 2

\* the steps with a timed polling loop: steps 1 to 4, the sidebar scan of
\* step 5, and step 9
PollingSteps == {"step1", "step2", "step3", "step4", "nav4", "step5", "nav5", "step9"}

\* steps 1 to 5 run once, one after the other, before the navigation loop
StepAfter(step) ==
    CASE step = "step1" -> "step2"
      [] step = "step2" -> "step3"
      [] step = "step3" -> "step4"
      [] step = "step4" -> "step5"
      [] step = "step5" -> "nav_loop"

\* while (time.time() - start) < timeout
within_timeout_always(sleeps) == TRUE
within_timeout(sleeps) == sleeps < MaxSleeps

InitTerm ==
    /\ term_pc = "escalate_loop"
    /\ run_attempt = 0
    /\ nav_try = 0
    /\ response_try = 0
    /\ slept = 0
    /\ flow_runs = 0
    /\ nav_tries = 0
    /\ prompt_sends = 0
    /\ flow_result = "none"
    /\ term_ret = "none"
    /\ Parked({"term"})

\* return {...} in execute_full_flow
FlowReturns(kind) ==
    /\ term_pc' = "returned"
    /\ flow_result' = kind
    /\ slept' = 0

TermGoto(place) ==
    /\ term_pc' = place
    /\ slept' = 0
    /\ UNCHANGED flow_result

\* escalate: for attempt in range(max_attempts): execute_full_flow(...);
\* after the loop the failure is returned
escalate_loop ==
    /\ term_pc = "escalate_loop"
    /\ IF run_attempt < max_attempts
       THEN /\ term_pc' = "step1"
            /\ flow_runs' = flow_runs + 1
            /\ nav_try' = 0
            /\ response_try' = 0
            /\ nav_tries' = 0
            /\ prompt_sends' = 0
            /\ flow_result' = "none"
            /\ UNCHANGED term_ret
       ELSE /\ term_pc' = "done"
            /\ term_ret' = "failure"
            /\ UNCHANGED << flow_runs, nav_try, response_try, nav_tries, prompt_sends,
                            flow_result >>
    /\ UNCHANGED << run_attempt, slept >>
    /\ OnlyTerm

\* one round of a polling loop that found nothing yet: time.sleep(...)
poll_sleep ==
    /\ term_pc \in PollingSteps
    /\ within_timeout(slept)
    /\ slept' = slept + 1
    /\ UNCHANGED << term_pc, run_attempt, nav_try, response_try, flow_runs, nav_tries,
                    prompt_sends, flow_result, term_ret >>
    /\ OnlyTerm

\* steps 1 to 5 of execute_full_flow: if not self.stepN(...): return {...}
steps_before_navigation ==
    /\ term_pc \in {"step1", "step2", "step3", "step4", "step5"}
    /\ \E ok \in BOOLEAN :
         IF ok THEN TermGoto(StepAfter(term_pc)) ELSE FlowReturns("failure")
    /\ UNCHANGED << run_attempt, nav_try, response_try, flow_runs, nav_tries, prompt_sends,
                    term_ret >>
    /\ OnlyTerm

\* for nav_attempt in range(max_nav_retries + 1), and the else of the loop
navigation_loop ==
    /\ term_pc = "nav_loop"
    /\ IF nav_try > max_nav_retries
       THEN FlowReturns("failure") /\ UNCHANGED nav_tries
       ELSE /\ TermGoto(IF nav_try > 0 THEN "nav4" ELSE "step6")
            /\ nav_tries' = nav_tries + 1
    /\ UNCHANGED << run_attempt, nav_try, response_try, flow_runs, prompt_sends, term_ret >>
    /\ OnlyTerm

\* the body of the navigation loop: steps 4 and 5 again on a retry, then
\* step 6; a failed step goes on to the next nav_attempt, step 6 breaks
navigation_step ==
    /\ term_pc \in {"nav4", "nav5", "step6"}
    /\ \E ok \in BOOLEAN :
         IF ok
         THEN /\ TermGoto(CASE term_pc = "nav4" -> "nav5"
                            [] term_pc = "nav5" -> "step6"
                            [] term_pc = "step6" -> "response_loop")
              /\ UNCHANGED nav_try
         ELSE /\ TermGoto("nav_loop")
              /\ nav_try' = nav_try + 1
    /\ UNCHANGED << run_attempt, response_try, flow_runs, nav_tries, prompt_sends, term_ret >>
    /\ OnlyTerm

\* for response_attempt in range(max_response_retries + 1), and the return
\* after the loop
response_loop ==
    /\ term_pc = "response_loop"
    /\ IF response_try > max_response_retries
       THEN FlowReturns("failure")
       ELSE TermGoto("step7")
    /\ UNCHANGED << run_attempt, nav_try, response_try, flow_runs, nav_tries, prompt_sends,
                    term_ret >>
    /\ OnlyTerm

\* step 7 (at most one Enter per call), step 9, and step 10 with the
\* validation of the response
response_step ==
    /\ term_pc \in {"step7", "step9", "step10"}
    /\ \E outcome \in {"ok", "failed", "invalid"} :
         /\ outcome = "invalid" => term_pc = "step10"
         /\ CASE outcome = "failed" ->
                   /\ FlowReturns("failure")
                   /\ \E entered \in BOOLEAN :
                        prompt_sends' = IF entered /\ term_pc = "step7"
                                        THEN prompt_sends + 1 ELSE prompt_sends
                   /\ UNCHANGED response_try
              [] outcome = "invalid" ->
                   /\ TermGoto("response_loop")
                   /\ response_try' = response_try + 1
                   /\ UNCHANGED prompt_sends
              [] outcome = "ok" ->
                   /\ IF term_pc = "step10"
                      THEN \E usable \in BOOLEAN :
                             FlowReturns(IF usable THEN "success" ELSE "success_empty")
                      ELSE TermGoto(IF term_pc = "step7" THEN "step9" ELSE "step10")
                   /\ prompt_sends' = IF term_pc = "step7"
                                      THEN prompt_sends + 1 ELSE prompt_sends
                   /\ UNCHANGED response_try
    /\ UNCHANGED << run_attempt, nav_try, flow_runs, nav_tries, term_ret >>
    /\ OnlyTerm

\* escalate after execute_full_flow: return the response, or continue, or
\* break on a non-recoverable reason
escalate_after_run ==
    /\ term_pc = "returned"
    /\ IF flow_result = "success"
       THEN /\ term_pc' = "done"
            /\ term_ret' = "success"
            /\ UNCHANGED run_attempt
       ELSE \E non_recoverable \in BOOLEAN :
              IF non_recoverable /\ flow_result = "failure"
              THEN /\ term_pc' = "done"
                   /\ term_ret' = "failure"
                   /\ UNCHANGED run_attempt
              ELSE /\ term_pc' = "escalate_loop"
                   /\ run_attempt' = run_attempt + 1
                   /\ UNCHANGED term_ret
    /\ UNCHANGED << nav_try, response_try, slept, flow_runs, nav_tries, prompt_sends,
                    flow_result >>
    /\ OnlyTerm

NextTerm ==
    \/ escalate_loop
    \/ poll_sleep
    \/ steps_before_navigation
    \/ navigation_loop
    \/ navigation_step
    \/ response_loop
    \/ response_step
    \/ escalate_after_run

SpecTerm == InitTerm /\ [][NextTerm]_vars

\* escalate runs on one thread, which takes its next step whenever it has one
SpecTermFair == SpecTerm /\ WF_vars(NextTerm)

\* C40: every escalate call ends with a result; it runs the flow at most 4
\* times, a run makes at most 3 navigation attempts (steps 4 to 6) and at
\* most 3 prompt submissions, and no polling loop outlasts its timeout.
C40_EscalateTerminates ==
    /\ <>(term_pc = "done" /\ term_ret \in {"success", "failure"})
    /\ [](flow_runs <= max_attempts)
    /\ [](nav_tries <= max_nav_retries + 1)
    /\ [](prompt_sends <= max_response_retries + 1)
    /\ [](slept <= MaxSleeps)

\* the fourth run failed at step 6 after three navigation attempts and
\* escalate returned the failure
C40_Witness ==
    /\ term_pc = "done"
    /\ term_ret = "failure"
    /\ flow_runs = max_attempts
    /\ nav_tries = max_nav_retries + 1
    /\ nav_try > max_nav_retries

====
